# wolkvorm in TLA+

A formal model of wolkvorm, its Go backend and its React client: TLA+ modules
translated from the source, TLC runs over small instances, and TLAPS proofs that
hold for every instance. A source line is `file:line`; `.go` files lie in
`src/backend/`, `.js` files in `src/frontend/src/` (`pages/`, `components/`,
`contexts/`). The repository has no test of its own logic; what is checked here
is checked nowhere else in it.

## 1. The system

wolkvorm is a Go HTTP server in front of one SQLite file, a React client, and
Terraform or OpenTofu run in throw-away containers (docker on one host, or a
Kubernetes Job). A request becomes a goroutine; there is no queue, no lock per
resource, and no transaction around more than one statement. SQLite is opened
without WAL and without a busy timeout, so that statements and queries of
overlapping requests may fail; nearly every such error is printed or dropped
and the caller goes on. The client is one page; each of its views sends its own
requests, cancels and orders none of them, and looks at the status of some.

| part | state it keeps | operations | correct means | hard because |
|---|---|---|---|---|
| plan / apply / destroy pipeline (`handler_plan.go`, `handler_ws.go`) | `/tmp/wolkvorm-run`, `lastLogs`, `planHistory`, rows of `executions` and `resources` | a POST runs `runTerragrunt`, a WebSocket runs `wsRunHandler` | a container runs its own configuration; what is deployed has a row and a record; a record is closed once; a row agrees with its record | requests interleave on one directory and two globals; some ten statements, each of which may fail; a crash between any two |
| outputs refresh (`handler_resources.go`) | the same directory, `resources.outputs` | `refreshOutputsHandler` | outputs belong to the row they are saved on | the row is looked up before the container runs |
| start-up clean-up (`database.go:227`) | `executions`, `resources` | `cleanupStaleRecords` | what a dead process left running is closed, and its applies are visible | the next process may crash in the clean-up too |
| approvals (`handler_approvals.go`) | table `approvals`, a goroutine per approved operation | ask, approve, reject, run | one decision per ticket, one execution per approval | status read, checked and written by separate statements; the goroutine is not persistent |
| container stream (`handler_ws.go:163`, `k8s_runner.go`) | pipes, a channel of 100 lines, ConfigMap and Job | start, read lines, forward, poll, clean up | the record holds what the container wrote; the verdict is the container's; nothing is left in the cluster | two readers, a forwarder, a client that may stall, `Wait` and `close`; every call to the cluster may fail |
| drift detection (`drift_detector.go`) | ticker, stop channel, `driftRunning`, table of checks | start / stop the scheduler, a round, a single check | at most one scheduler and one round; drift is reported as such | a goroutine that reads globals again at every turn |
| settings (`credentials.go`) | `appSettings` under a lock, an encrypted file | set, save, load | the file holds the last setting that was acknowledged | snapshot and write are not under one lock; written in place |
| running operations in the client (`OperationContext.js`, `OperationBars.js`, `PlanModal.js`) | operations, their sockets | start, events of a socket, dismiss | a bar and its modal tell what the run came to, and every bar ends | a socket is refused, breaks or closes after any message; bar and modal judge by different things |
| session (`AuthContext.js`, `App.js`, `LoginPage.js`, `handler_auth.go`) | token in `localStorage`, user in React, users and reset codes in the database | sign in, restore, set up, reset, change, sign out | the page shows the user its token stands for; a password that must be changed is changed first | five ways into a session, three timers, late answers of earlier sessions |
| form of a resource (`ResourcePage.js`, `DynamicForm.js`) | inputs, region and environment, twice | mount, edit, check, confirm, launch | what is launched was seen and checked; an edit keeps its resource | three requests answered in any order around what the user types |
| import (`ImportPage.js`, `handler_import.go`) | rows of `resources`, the wizard | scan, tick, import | a resource of AWS gets one row | the import does not look; answers are lost or come late |
| lists and settings of the console (`SettingsPage.js`, `ApprovalsPage.js`, `PoliciesPage.js`, ...) | a copy of what the server holds | load, filter, change, save | shows what the server holds, sends what was loaded or entered | changes before a load was answered, answers out of order, refusals not looked at |
| fields with a state of their own (`AwsResourceSelect.js`, `NodeGroupEditor.js`, `SecurityGroupRules.js`) | a copy of the value | pick, add, edit, remove | what is shown is what is sent | effects that follow a prop that they change |
| side panel, audit log, graph (`PRButton.js`, `AuditLogPage.js`, `GraphPage.js`) | what was asked for | pull request, estimate, search, blast radius | a success is one; entries are as asked; the graph is right | the form changes during four requests; the search asks with the page of an older render |

Parts talk by calls inside a goroutine, through the tables, and through the
globals named above. An approved ticket calls the pipeline
(`handler_approvals.go:123`); the pipeline calls the container stream, whose
lines and verdict `OperationContext` receives; drift checks and the import read
and write the same tables. In the client, `AuthContext` ends a session for every
request that comes back with 401 (`config.js`), and `ResourcePage` starts
operations that outlive it.

## 2. Modules

| module | models |
|---|---|
| `Operations`, `MCOperations` | the pipeline, its tables, the outputs refresh, crash and clean-up; the symmetry set for TLC |
| `OperationsProofs` | proofs about `Operations`: types, records and rows, requests that do not overlap |
| `ApprovalDecision` | what the approval workflow promises: the abstract specification |
| `Approvals` | the workflow as the handlers and goroutines carry it out |
| `ApprovalsProofs` | proofs about `Approvals`, the refinement of `ApprovalDecision` among them |
| `RunStream`, `RunStreamProofs` | one container, its output and its verdict, in docker and Kubernetes mode |
| `Settings` | the settings in memory and in their file, crash and load |
| `Drift`, `MCDrift`, `DriftProofs` | the scheduler of drift checks and its rounds, on top of `Settings` |
| `OperationBars`, `OperationBarsProofs` | the operations of the client, their sockets, bars and modal |
| `Session`, `SessionProofs` | who is signed in: `AuthContext`, route guards, sign-in and set-up, and the handlers behind them |
| `ResourceForm`, `ResourceFormProofs` | `ResourcePage` and `DynamicForm`, from the mount to the launch |
| `Console`, `ConsoleProofs` | the other pages, put together from the ten modules below; one behaviour is the visit of one page |
| `Lists` | approvals, policies, budgets, API keys, AWS accounts, users: a list and its changes |
| `SettingsForms` | the seven forms of `SettingsPage` that hold one value of the server each |
| `ImportWizard` | `ImportPage` and the two handlers of an import |
| `Picker` | `AwsResourceSelect`: the resources of the region of the form |
| `NodeGroupEditor`, `SecurityGroupRules` | the two structured inputs |
| `SidePanel` | `PRButton` with the handlers that forward to GitHub, and the estimate |
| `AuditLog` | `AuditLogPage`: pages, filters, search |
| `GraphView` | the layout and the blast radius of `GraphPage` |
| `MyResources` | `MyResourcesPage` and the banner of the state backend |
| `Removal` | the element of a sequence that is taken out, for six of them |

`Approvals` takes the pipeline as one step (`RunJob` to `EndJob`); `Operations`
takes the container and its stream as one step (`ContainerEnds`), which
`RunStream` opens up. `Drift` extends `Settings`: its actions are those of
`Settings` with what they mean for the scheduler, and one crash ends both.

Operators marked *Seeded* in a module are faulty variants of the operator
below them. No specification uses them: they are put in its place to see that a
property notices.

### Operations

A request `o` is a goroutine at `pc[o]`. One step is what it does between two
points where another one can interfere:

    clear -> fill -> remember -> insert -> launch -> running -> settle -> persist
          -> lookup -> track -> (sweep) -> fetch -> save -> done

- `clear`, `fill`: `os.RemoveAll` and the write of `main.tf`. `runDir` is named
  by the request whose configuration is in it. `docker-compose.yml:13` mounts the
  directory from the host, so every container sees its present content; `Launch`
  reads it in docker mode. One read stands for `init` and the action. A
  Kubernetes job mounts a ConfigMap of its own and is not affected.
- `remember`, `settle`: the two updates of `planHistory`, under its mutex. Records
  are named by the request that draws the id; with the fault `"collision"` two
  requests of one action draw the same millisecond. History entries of the same
  id are merged into one; the loop in the code takes the first.
- `insert`, `persist`: the `INSERT` and the `UPDATE` of `executions`.
- `lookup`, `track`, `sweep`: the look-up by state key, the row that is inserted,
  updated or cancelled, and the last attempt of a destroy to find its row by name.
  The column `state_key` is not unique, and which row of several the query
  returns is left open.
- `fetch`, `save`: the second container, which reads outputs, and the row they
  are saved on.
- `infra` and `tfstate` are what exists in the cloud and what the S3 state records
  of it. An apply that fails may have deployed or not; a destroy removes what its
  state knows.
- Keys in `UnnamedKeys` are those of a schema without a name field (`kms.json`),
  for which `getResourceName` falls back to the clock.
- A request may name a row: one that is there, and a live one unless `StaleRows`
  says that clients keep the ids of rows that have been destroyed.
- `Crash` loses every goroutine, `lastLogs` and `planHistory`; a container goes on
  without its backend (`detached`). `MarkInterrupted`, `Recover` and `Serve` are
  the next start. Its clean-up may crash and be repeated.

Faults are `"crash"`, `"lostwrite"` (a statement on a table fails), `"lostread"`
(the look-up or a query of the clean-up fails), `"collision"`, and `"verdict"` (a
job that failed or was not seen to end counts as a success, `k8s_runner.go:382`).
Other queries that fail have the effect of an empty answer, which the model
reaches without a fault.

### Approvals

`Ask` is the gate in `terragruntHandler` or `wsRunHandler`, with the setting of
`approvalSettingsHandler`. A review reads the ticket (`Read`), checks it and
writes the verdict (`Decide`), answers and starts the goroutine (`StartJob`),
which runs the operation (`RunJob`, `EndJob`). `Overlapping` is the set of tickets
that two reviewers may have in the handler at a time; the others are in turn: a
review of one starts only when no other is between its read and its write. The
`UPDATE` looks at the id alone (`database.go:864`), so that overlapping reviews
both succeed.

### RunStream

Line `n` of a stream is `<<s, n>>`; counters say how far a stream is written, read
and sent. Docker mode has two pipes of limited size, which `cmd.Wait` closes when
the container has ended; the readers are goroutines nobody waits for.
Kubernetes mode has the log of one pod, which the handler scans itself. A scanner
that meets a line longer than its buffer stops for good. `forwarder` takes lines
from the channel, records them and writes them to a client that may stall.
A send on the closed channel panics in a goroutine without `recover`: the process
ends. A line that is cut off in the middle by the end of a pipe is taken as lost.

### Settings and Drift

A request of `Settings` is at `writer[w]`: `Set` changes its section in memory,
`Copy` marshals the struct under the lock, `Truncate` and `Write` are
`os.WriteFile`. The file is `Empty` in between, or `Broken` if two requests write
over each other; `Load` takes either for a fresh start. The value of a section is
the name of the request that has set it. Sections are `"drift"` and one that
stands for all others.

`Drift` adds what `driftSettingsHandler` does next. `StartDriftScheduler` holds
`driftMu`, but its loops do not take it, so that what it does is three steps:
`StopScheduler` (stop the ticker and close the channel; returns when the checks
are off), `NewTicker`, and `NewLoop`. Tickers, channels and loops carry the name of
the request that made them, or `"boot"`. A loop evaluates the two channels of its
`select` from the globals one after the other (`ReadTicker`, `ReadChannel`), waits
(`Tick`, `EndLoop`) and runs a round (`EnterRound`, `LeaveRound`); a client may ask
for a round too. A ticker that is stopped leaves no tick behind (`go.mod:3`: Go
1.25). A loop that is busy with a round misses the closing of its channel and
finds new globals afterwards: there are two loops then, or one that waits on the
new ticker and the old channel. What `OffReachesAll` says is that all of them
still hear of an end; what `OneRound` says is that they never overlap.

### OperationBars

An operation is named by its run. `wire[r]` is what the server has sent on the
socket of `r` and the client has not received; `server[r]` is `wsRunHandler` cut
down to its messages (`Answer`, `PrintLine`, `Finish`); `Operations` and
`RunStream` have the rest of it. `OnRefused`, `OnClose` and `OnLost` are how a
socket ends: the browser tells the first with an `error` event, the second with
`close` alone, the third with either. `onclose` (`OperationContext.js:99`) leaves
the operation as it is, so that a connection that is lost without an `error`
leaves a bar running which has no button; the variable `broken` remembers it and
the properties name it. Signing out (`Unmount`) leaves the sockets open.

### Session

A tab is a record of its page, its form and its timers. Redirects are run with
the step whose state they follow from (`Settle`, the guards of `App.js:107-140`).
A request is a record in `calls` that the server answers in one step; the answer
is received in a later one, or dropped by a load of the page. Tokens are numbers
in the order of issue and expire at any time. `OnPage` is `authFetch`
(`config.js`): 401 ends the session whichever token the request carried. A page
that is left loses its form, while the answers to it still come: `id` tells the
form that asked from the one there is now. `overlap` is history, and set when a
form is sent while another waits. Once that has happened no more forms are sent
until the page is loaded, which is a bound. `View` has TLC tell states apart by
the tokens that somebody holds; no action and no property reads another.

### ResourceForm

The three requests of the mount are in `pending`; `OnSettings`, `OnResource` and
`OnSchema` are their answers in any order. `DynamicForm` is mounted with the
schema and has a region and an environment of its own; an effect follows the
region of the page (`SetRegion`) but nothing follows its environment. `Submit`
checks what is on the form; an apply or a destroy waits in `confirm`, a copy,
which `HandleConfirm` launches.

### Console

The ten modules below `Console` have variables of their own but share its
`at`; they are put together by `INSTANCE`, and only the actions of the open page
are enabled. A page that is left loses its state and every answer it waits for,
so a behaviour is the visit of one page. What is on its way is a set where
answers do not depend on their order, a sequence where a late answer can overtake
(`reads`, `requests`, `itemFetches`, `logFetches`); history variables
(`overtaken`, `itemsCrossed`, `early`, `failed`, `raced`, `late`, ...) remember
that something happened which the pages neither prevent nor notice, and the
properties say what holds without it. The history variables show where the code
relies on luck:

- *Lists.* Every change is a request that differs in what the page does with the
  answer: read the list again, take the row out by itself, or neither. A list
  read that was asked for earlier and answered later brings a deleted row back.
  Deleting a user takes the row out also when the server refuses
  (`SettingsPage.js:1004-1006`). The button that saves a policy is not turned off, so
  that two presses make two. Turning a policy on or off sends back the whole
  policy as it was listed.
- *SettingsForms.* Its buttons work before the load was answered: a save stores
  what was in the empty fields, and the load that follows may show the older value
  (the box of approvals flips back). A refused save of notifications is told as
  saved.
- *ImportWizard.* A refused scan is shown as an account without unmanaged
  resources, a refused import as "Import Complete". Ticks survive a new scan.
- *NodeGroupEditor, SecurityGroupRules.* Names of groups are drawn from their
  number, so that two may be equal after a removal. A source is completed when its
  field is left; a form sent with Enter carries it uncompleted.
- *SidePanel.* The handlers of a branch, a commit and a pull request answer 200
  whatever GitHub says (`handler_github.go:271-409`), and a refusal reads as a
  success (`told`).
- *GraphView.* `FindDependents` is the nested function as a recursive function of
  its calls: what is affected so far, the resource, and how many references the
  loop has seen. `Cursors` is the loop of the layout, group by group. The blast
  radius is right, but no edge is drawn highlighted: it is
  looked for by ids that edges do not have (`GraphPage.js:180`, `266-268`).

## 3. Runs

| run | instance | shows |
|---|---|---|
| `OperationsCrash` | 2 overlapping requests, 2 unnamed keys, every action and route, Kubernetes, 2 faults of crash / lost verdict / failing query (1.4 M states) | `Provenance`: a row agrees with the record of its apply; `DeployedIsRecorded`; `RunningIsAttended`: what says "running" has a goroutine |
| `OperationsVerdict` | 2 overlapping requests, docker, 2 faults of crash / collision / failing statement, fair (0.5 M) | `VerdictIsFinal`, `HistoryNotBehind`, and `EveryRunIsClosed` |
| `OperationsSerial` | 3 requests, 2 keys, one at a time, no faults, rows that are named are live (0.3 M) | `KeptApart`: configuration, logs and outputs are a request's own; `RowsAgreeWithCloud`: what is deployed has one row, and an active row is deployed |
| `Approvals` | 2 tickets, one of them reviewed in turn, 3 reviews, a crash, a change of the setting, fair (95 k) | `OneVerdict` and the refinement `KeepsPromise` for the ticket in turn, `RunsAreApproved` and `ApprovedIsRun` for both |
| `RunStream` | both modes, 2 lines per stream, long lines, a stalling client, 2 kinds of failing call, fair (42 k) | `RecordIsTrue`, `JobEndsInOrder`, `FailureIsReported`, `RunEnds` |
| `Drift` | 3 requests for a setting in turn, intervals 0 and 1, a crash, a failing write, a round asked for (65 k) | `RestartLosesNothing`, `OneRound`, `SchedulerFollows` |
| `OperationBars` | 2 runs, a plan or an apply each, every way a socket ends, fair (0.34 M) | `ToldAsItEnded`, `RunningBarIsServed`, `EveryBarEnds` |
| `Session` | one tab, 2 users, 3 tokens, a change of password, 2 forms that wait at a time (0.8 M) | `ShownUserHoldsToken`, `PasswordFirst`, `RestoreEndsItsOwn` |
| `ResourceForm` | 2 fields, 2 regions, 2 environments, 2 edits, 2 presses (1.1 M) | `LaunchesWhatWasSubmitted`, `EditKeepsItsResource` |
| `Console` | a visit of each page with the bounds of `Console.cfg` (0.6 M) | `ShowsWhatTheServerHolds`, `SendsWhatWasOpened`, `TellsWhatWasDone`, `ImportedOnce`, `GraphIsRight` |

Two runs show a disagreement of code and documentation; each checks one property
and TLC finds its counterexample:

| run | property | what happens |
|---|---|---|
| `RunStreamLost` | `OutputIsRecorded` | `cmd.Wait` closes the pipe before it is read, or the channel is closed before the last send |
| `DriftAgain` | `OnIsScheduled` | checks turned on, off and on again: the closed channel is closed once more, the handler panics (net/http recovers), the setting says on and nothing is scheduled until a restart |

**Where the code does less.** More counterexamples are found by relaxing a
constant of a passing run, or by asking for a property that the modules state
and no run checks:

- `MaxInFlight = 2` in `OperationsSerial`: two overlapping requests share the run
  directory and a container runs the other's configuration; a record holds the
  logs of the other request, over `lastLogs` (`KeptApart`); two applies of one key
  insert two rows (`RowsAgreeWithCloud`).
- `RemoteState = FALSE`: a destroy removes nothing and cancels the row; unnamed
  keys: a destroy cancels the row of another resource; one request and the fault
  `"crash"`: a crash between the verdict and the row leaves what was deployed
  without a row, and the clean-up does not look for it (`handler_plan.go:208`). All
  in `OperationsSerial`, against `RowsAgreeWithCloud`.
- `StaleRows = TRUE` and four requests in `OperationsSerial`: apply, destroy, apply
  again, which inserts a second row, and a destroy that names the first. The
  destroy cancels what is cancelled already and leaves a row that says "active"
  with nothing deployed (`handler_plan.go:333`, `RowsAgreeWithCloud`). The form
  keeps the id of its row in its address after a destroy, so that a user who
  stays on the page sends just this. Three requests are too few to see it; it
  was found in the proof, whose case of a destroy that names its row did not hold.
- `Kubernetes = FALSE` in `OperationsCrash`: a container can deploy a configuration
  whose request has no record yet (`DeployedIsRecorded`).
- A ticket in `Overlapping` and `RunsOnce` stated of all tickets: two reviewers
  approve one ticket and it runs twice (`handler_approvals.go:62-130`).
- `Overlapping = TRUE` in `Drift`: memory, file and scheduler may each follow a
  different one of two requests.
- Two tabs in `Session`: a tab shows the user of its own sign-in and sends the
  token of the other's (`ShownUserHoldsToken`).
- `ShownUserHoldsToken` in `Session` without its exception: a user signs in, signs
  out and signs in again within 600 ms; the timer of the first sign-in goes home,
  the guard turns back to a login page that is empty and can be sent, and a third
  sign-in overtakes the second. Both are answered, and if one of the accounts has
  to change its password the other is shown with its token
  (`LoginPage.js:212`, `AuthContext.js:73-84`).
- `EditReachesItsResource` in `ResourceForm`: a resource of "prod" opened for
  editing and applied is launched for "dev", since `DynamicForm` never learns its
  environment (`ResourcePage.js:61`, `DynamicForm.js:61, 166`).
- `ModalAgreesWithBar` in `OperationBars`: a run that failed without the word
  "Error:" in its output has a red bar and a green dot in its modal
  (`PlanModal.js:154-158`).

Some are visible in an action itself. `GiveUpVerdict` counts a job whose end the
cluster does not show in time as a success (`k8s_runner.go:382`). A crash between
`Truncate` and `Write` loses every setting, those of other requests too
(`credentials.go:169`). In `Session`, the late refusal of a request with an old
token ends the session that has begun since; the timers that go home after 600 ms
and turn to the reset form after 3 s are not cancelled when the user moves on; and
a reload while a password must be changed loses the current password the form
remembers, so that the change is refused until the user signs in again. Outside
the models, `RunKubeJob` returns no `ExitError`, so that under Kubernetes a drift
is recorded as an error (`drift_detector.go:103`).

**Bounds.** `MaxInFlight`: requests open at a time; two are enough for every
race of a pair, and the properties compare one request, row or key with another.
`MaxFaults`: two faults allow a crash in the clean-up after a crash, or a
failing statement and then a crash. Three requests one after the other allow
apply, failed apply or refresh, destroy on one key and an apply on another.
`MaxCrashes`, `MaxToggles`: crashes and changes of the setting. Three reviews on
two tickets allow two reviews of one ticket and one of the other. `MaxLines =
2`, `PipeSize = ChannelSize = 1`: a line in the pipe, one in the scanner, one in
the channel, and one that blocks. `PodPolls`, `VerdictPolls`: two polls instead
of 120 and 30. Three requests for a setting allow on, off, on, or a change of
the interval and a stop; one interval above 0 is enough, since requests for the
same interval make tickers of their own. `MaxFaults` of `RunStream` counts the
kinds of call to the cluster that fail. In the client two of everything is
enough, since its races are of pairs: two runs, two answers that cross, two
presses of one button, a user who signs out and one who signs in and in again
before the timer of the first time fires (three tokens). `MaxActs = 3` allows an
edit between two saves; `MaxTurns = 4` a filter, a page, a search and another
page; three resources in two scopes, one of them in both, let a scan and an
import meet. The graph has every set of references among the first resources of
three groups and every size up to `MaxGroup`, which is more than a row of a box
holds. Symmetry is used for safety runs only, on the requests, which are told
apart by nothing but their parameters.

**Fairness.** Weak fairness of every goroutine (the Go scheduler runs them all),
of containers (terraform ends; a container that is not blocked goes on) and of
the start-up, which nothing else can hold up. Nothing is assumed of clients,
of requests being sent, of faults, or of the cluster's calls succeeding.
`EveryRunIsClosed` names the exception of a lost `UPDATE`: faults other than a
crash. `RunEnds` excludes a client that stalls (the write has no deadline) and,
in docker mode, a line that is too long (the reader is gone and the container
blocks): under those the run does not end. `EveryBarEnds` has weak fairness of the
handler of a run and of what the browser does by itself: a connection is made or
refused, and messages that have arrived are delivered. Nobody has to press a
button, and no connection has to break or close. `Session`, `ResourceForm`,
`Drift` and `Console` are checked for safety only: their requests may be answered
late or never.

## 4. Proofs

TLAPS checks these for every value of the constants:

| theorem | says | assumes |
|---|---|---|
| `TypeCorrect` | `Operations` is well typed | nothing |
| `RunningRecordsAreAttended` | `RunningIsAttended` | no lost statement |
| `VerdictsAreFinal` | `VerdictIsFinal` | nothing |
| `HistoryIsNotBehind` | `HistoryNotBehind` | nothing |
| `RowsHaveTheirRecord` | `Provenance` | no lost statement, no two records of one id |
| `DeployedHasRecord` | `DeployedIsRecorded` | Kubernetes, no lost statement |
| `RequestsAreKeptApart` | `KeptApart` | one request at a time |
| `KeysHaveOneRow` | `OneRowPerKey` | one request at a time, no failed look-up |
| `RowsAndCloudAgree` | `RowsAgreeWithCloud` | one request at a time, no fault that loses anything, remote states, names that are not made up, clients that name live rows by their key (`Undisturbed`) |
| `ApprovalsType` | `Approvals` is well typed | nothing |
| `OneVerdictIsCarriedOut` | `OneVerdict` | nothing: it is about the tickets in turn |
| `RunsAnswerApprovals` | `RunsAreApproved` | nothing: also of tickets whose reviews overlap |
| `HandlerKeepsPromise` | `Approvals` implements `ApprovalDecision` | as above |
| `StreamType` | `RunStream` is well typed | nothing |
| `RecordsAreTrue`, `JobsEndInOrder`, `FailuresAreReported`, `RecordsAreFinal` | `RecordIsTrue`, `JobEndsInOrder`, `FailureIsReported`, `SettledIsFinal` | nothing |
| `DriftType`, `RoundsExclude` | `Drift` and `Settings` are well typed; `OneRound` | nothing |
| `SettingsSurvive`, `SchedulersFollow` | `RestartLosesNothing`, `SchedulerFollows` | settings changed in turn |
| `BarsType`, `BarsTellTheEnd`, `RunningBarsAreServed` | `OperationBars` is well typed; `ToldAsItEnded`; `RunningBarIsServed` | nothing |
| `FormType`, `LaunchesAreSubmitted`, `EditsKeepTheResource` | `ResourceForm` is well typed; `LaunchesWhatWasSubmitted`; `EditKeepsItsResource` | nothing |
| `SessionType`, `PasswordIsFirst` | `Session` is well typed; `PasswordFirst` | nothing, in any number of tabs |
| `ShownUser`, `RestoreEndsItsOwnSession` | `ShownUserHoldsToken`; `RestoreEndsItsOwn` | one tab |
| `PageTypes` | `Console` is well typed | nulls that are no values (`NullsAssumption`) |
| `ShownIsHeld`, `SentWasOpened`, `ToldWasDone`, `ImportsAreOnce` | `ShowsWhatTheServerHolds`; `SendsWhatWasOpened`; `TellsWhatWasDone`; `ImportedOnce` | as above |
| `GraphsAreRight` | `GraphIsRight` | as above |
| `RadiusIsLeast`, `LayoutIsSound` | the search for dependents, of any finite set of references; the layout, of any number of groups of any sizes | nothing |

The assumptions are those under which the property is true; without each of
them TLC has a counterexample. Along the way:

- *Types* (`TypeInv == TypeOK /\ Grounded`). `TypeOK` alone is not inductive: a
  step reads `req[o].key`, which is a key only if the request was sent, and a row
  only if `existing[o]` is one. `Grounded` says what is known at each stage.
- *Attended records.* `RunningIsAttended` is inductive with the types: the one
  statement that writes `"running"` is the INSERT of a goroutine that has yet to
  write its verdict, and a crash is followed by the clean-up.
- *Final verdicts* (`OwnRecord`, `SoleRecord`): a goroutine before its UPDATE with
  an id nobody else has finds its record absent or running; so the only closed
  record it could rewrite is not there. That nobody else has the id is a
  property of the whole behaviour, which `OwnId` says of a state.
- *History* (`HistoryIsOpen`): the two updates of the memory enclose the statements
  on the table, also when these fail, and a crash empties the memory.
- *Rows* (`RecordsBehindRows`): the goroutine between its verdict and its row
  carries in `outcome` what its record says; records the clean-up has still to
  visit are interrupted applies.
- *Deployed* (`RecordedRuns`): a container has read its own request's
  configuration, and the record of that request is in the table.
- *In turn* (`Alone`): with one request in flight the run directory, the container
  and `lastLogs` are its own; a container whose backend has died still reads what
  is its own. `OutputsOfKey` follows a configuration from the container to the
  cloud, to the outputs that are read there and to the row they are saved on; it
  holds over crashes, failed statements and lost verdicts.
- *One row* (`OneRow`): between its look-up and its write an apply knows whether
  its key has a row, because nobody else writes.
- *Rows and cloud* (`Agree`): a key that no request works on agrees. Of the key that
  one works on, from the end of its container on, the invariant says what the
  verdict tells: after an apply that succeeded something is deployed, after a
  destroy that succeeded nothing is, and else nothing has changed that rows must
  learn of (`ApplyTold`, `DestroyTold`). A destroy that names its row names the
  only one of its key. `tfstate` knows of everything deployed.
- *Answered approvals* (`Counted`): the reviews of a ticket whose goroutine has run
  are counted against its runs; each of them has approved it.
- *Approvals* (`InTurn`): at most one review or goroutine will still run a ticket,
  and only while it has not run.
- *Stream* (`LinesInv`, `Reports`, `Handed`): counters of a lane are in order; a
  success that is not true has its reason in the polls; in Kubernetes mode no
  line is between scanner and channel outside the scan.
- *Record* (`Kept`, `ReadToEnd`). The order of a record is stated by counting: the
  line at a position is numbered by how many of its stream there are up to there.
  `Kept` says it of the record with what is on its way to it, which has as many
  lines of a stream as the scanner has sent, so that the line sent next is the
  next of its stream (`LineJoins`) and what is recorded is a beginning
  (`BeginningIsNumbered`). `ReadToEnd` remembers that the log of a job was read to
  its end when the verdict was asked for.
- *Drift* (`InTurn` of `DriftProofs`). `Store`: one request saves, and its copy is
  what is in force. `Generations`: ticker and channel are stopped and closed
  together and replaced under the mutex. `Loops`: whatever a loop waits on is the
  present generation or was stopped; hence a stop reaches it. `OwnLoop`: the loop
  made with a channel cannot leave it while it is open. `InForce`: an open channel
  is that of the interval in force, unless a request still owes its change.

- *Bars* (`Holds`): a verdict reaches a bar over the wire, so the invariant says of
  every message under way what it says of the outcome (`WireTells`), that the
  last message of an ended run is a verdict (`VerdictIsLast`), and that a run that
  has not answered has sent nothing (`Unanswered`).
- *Form* (`Shape`, `Seen`): the form is there once the schema is, a resource comes at
  most once and only in edit mode, and whatever waits in the modal was submitted
  and passed the checks.
- *Session* (`IInv`, `One`). An answer may be received long after it was given, so
  `Issued` says of each that is on its way whose token it brings and that this
  account need not change its password. For one tab, `Restoring`, `Changing` and
  `Showing` say which requests can be on their way while a session is restored,
  a password must be changed, and somebody is signed in: only what cannot begin
  another session. `Numbered` says that a form waits by itself unless two have
  overlapped, so that its answer is the last. With two tabs this fails, and so
  do both properties.
- *Console* (`IInv` of `ConsoleProofs`). One page is open, so the invariant is one
  of each page. What a page shows is settled by what is on its way: of a list that
  was asked for last, `LastAnswers` says that its answer, once it is there, is the
  table but for changes whose own answers are still to come, and those make the
  page ask again; a user who is taken out is an exception of its own row only, as
  a row that is gone never comes back (`RowsGoOn`). Of a form, `StoreIsShown` says
  that the draft is the value of the last save that was not served, or else what is
  stored (`DraftIsOf`), and that no save is told while another waits (`OneBusy`).
  Of the wizard, `Listed` says that what is listed has no row unless it is of the
  very list being imported; `RowsAreOfImports` counts rows against imports. Of the
  side panel, `MakingIsOfItsPress` follows a pull request through its three calls.
  The editors keep every group sized (`Sized`) and every rule of its type
  (`RuleIsSound`) while a value goes to the form and comes back.
- *Graph* (`GraphInv`): a selection is of the graph that is shown, since an answer
  that is still to come finds an empty one, and the blast radius is that of the
  selection. What the search computes is proved of every call: it keeps what it
  was given (`SearchGrows`), closes under what it adds and under the references
  it has gone through (`SearchCloses`), and adds nothing outside a set that is
  closed already (`SearchIsLeast`). A call goes on to calls of less weight (the
  references whose origin is not affected yet, then those still to be seen), which
  is also why the recursive function has a value everywhere (`SearchExists`,
  `SearchIsDefined`): the search ends. The layout goes on from group to group: each
  earlier box ends left of the cursor in its row, or above the row (`Placed`).

Induction theorems that take an operator cannot be used with the provers at
hand. `SmallestOf`, `Numbers` and `CallInduction` say the same of sets: numbers
are well founded (`NatLessThanWellFounded`), so a set of them that is not empty
has a least one.

Only model-checked: liveness (`EveryRunIsClosed`, `ApprovedIsRun`, `RunEnds`,
`EveryBarEnds`), because temporal proofs under fairness and `ENABLED` are beyond
the prover. Every other property of a run that passes is a theorem.

## 5. Plan

In this order:

1. `DriftCheck`: a single check next to rounds, the directory it shares with
   other checks, and its verdict in both execution modes.
2. The default AWS account with its two statements, and reset codes with their
   limits, against the pages that are modelled already.
3. Policy rules as functions of their inputs, against a reference definition.

## 6. Not modelled

Texts: generated HCL, logs as strings, wording of errors, masking, and what the
client only renders (tabs, tables, themes, the home page, the dashboard, the
cards, past plans of a resource). Outside services: AWS, GitHub, Infracost and
notification channels are their result. Hashes, signatures of tokens, limits of
reset codes. The container run of a cost estimate shares one directory among all
estimates as runs do. Policies are stored and listed, and `EvaluatePolicies` is
called by the validation endpoint alone, never by a run. Two tabs, the deletion of
the account one is signed in with, and more than one request of a page at a time
are outside `Session`. One user does not start two operations of one action within
a millisecond. Clocks: ids drawn from the clock are modelled by whether they are
equal.
