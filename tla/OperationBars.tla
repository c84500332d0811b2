---------------------------- MODULE OperationBars ---------------------------
(***************************************************************************)
(* The operations of the web client: OperationContext, which starts a run  *)
(* over a WebSocket of its own and keeps what the run says, OperationBars, *)
(* which shows it in a corner of every page, and PlanModal, which judges   *)
(* the same output by its words.  The server is wsRunHandler, reduced to   *)
(* the messages it sends; Operations and RunStream model the rest of it.   *)
(*                                                                         *)
(* An operation is named by its run.  The ids of the code are an action    *)
(* and a time in milliseconds: one user does not start two operations of   *)
(* one action within a millisecond.                                        *)
(***************************************************************************)
EXTENDS Naturals, Sequences

CONSTANTS
  Runs,     \* bound: the runs a user starts
  Actions,  \* of "plan", "apply", "destroy"
  NoOp      \* a run the client holds no operation of

ASSUME BarsAssumption ==
  /\ Actions \subseteq {"plan", "apply", "destroy"}

VARIABLES
  ops,      \* operations
  wsRefs,   \* the runs whose socket the provider holds
  socket,   \* the readyState of the socket of a run
  wire,     \* what the server has sent and the client has not received
  server,   \* the run as wsRunHandler sees it
  broken    \* history: how a connection failed, "error" with an event and "silent" without one

client == <<ops, wsRefs, socket>>
vars == <<client, wire, server, broken>>

\* What PlanModal tells apart in the output: a line with "Plan:", "No changes",
\* "Apply complete!", "Destroy complete!" or "Error:", any other line, and the
\* words the client adds itself.
Lines == {"plan", "nochanges", "applied", "destroyed", "error", "text"}
Words == Lines \cup {"starting", "approval"}

Outcomes == {"unknown", "refused", "approval", "launch", "success", "failure"}

Operation == [status : {"running", "done", "error"}, logs : SUBSET Words]

ASSUME NoOpAssumption == NoOp \notin Operation

Messages ==
  [type : {"log"}, data : Lines] \cup [type : {"done"}, data : {"success", "error"}]
    \cup [type : {"started", "approval_required", "error"}, data : {"text"}]

TypeOK ==
  /\ ops \in [Runs -> Operation \cup {NoOp}]
  /\ wsRefs \subseteq Runs
  /\ socket \in [Runs -> {"none", "connecting", "open", "closed"}]
  /\ wire \in [Runs -> Seq(Messages)]
  /\ server \in [Runs -> [action : Actions \cup {"none"}, stage : {"idle", "asked", "running", "ended"},
                          outcome : Outcomes, out : Seq(Lines)]]
  /\ broken \in [Runs -> {"no", "error", "silent"}]

Init ==
  /\ ops = [r \in Runs |-> NoOp]
  /\ wsRefs = {}
  /\ socket = [r \in Runs |-> "none"]
  /\ wire = [r \in Runs |-> << >>]
  /\ server = [r \in Runs |-> [action |-> "none", stage |-> "idle", outcome |-> "unknown", out |-> << >>]]
  /\ broken = [r \in Runs |-> "no"]

\* updateOp: a message for an operation that is gone changes nothing.
Update(r, status, words) ==
  ops' = [ops EXCEPT ![r] = IF @ = NoOp THEN NoOp
                            ELSE [status |-> status, logs |-> @.logs \cup words]]

StatusOf(r) == IF ops[r] = NoOp THEN "none" ELSE ops[r].status

-----------------------------------------------------------------------------
(* What the user does                                                      *)

\* The constructor of WebSocket throws when the page may not open the url.
StartOperation(r, a) ==
  /\ server[r].action = "none"
  /\ server' = [server EXCEPT ![r].action = a]
  /\ \E constructed \in BOOLEAN :
       /\ ops' = [ops EXCEPT ![r] = [status |-> IF constructed THEN "running" ELSE "error",
                                     logs |-> {"starting"}]]
       /\ wsRefs' = IF constructed THEN wsRefs \cup {r} ELSE wsRefs
       /\ socket' = IF constructed THEN [socket EXCEPT ![r] = "connecting"] ELSE socket
  /\ UNCHANGED <<wire, broken>>

\* The button of a bar is there once the operation is over.
Dismissable(r) == StatusOf(r) \in {"done", "error"}

DismissOperation(r) ==
  /\ Dismissable(r)
  /\ wsRefs' = wsRefs \ {r}
  /\ socket' = [socket EXCEPT ![r] = IF r \in wsRefs THEN "closed" ELSE @]
  /\ wire' = [wire EXCEPT ![r] = IF r \in wsRefs THEN << >> ELSE @]
  /\ ops' = [ops EXCEPT ![r] = NoOp]
  /\ UNCHANGED <<server, broken>>

\* Signing out unmounts the provider.  Nobody closes its sockets: they go on,
\* and what they report finds no operation.
Unmount ==
  /\ \E r \in Runs : ops[r] # NoOp
  /\ ops' = [r \in Runs |-> NoOp]
  /\ wsRefs' = {}
  /\ UNCHANGED <<socket, wire, server, broken>>

-----------------------------------------------------------------------------
(* The events of a socket                                                  *)

OnOpen(r) ==
  /\ socket[r] = "connecting"
  /\ socket' = [socket EXCEPT ![r] = "open"]
  /\ server' = [server EXCEPT ![r].stage = "asked"]
  /\ UNCHANGED <<ops, wsRefs, wire, broken>>

\* Seeded: a socket without an onerror handler.
OnRefusedQuietly(r) ==
  /\ socket[r] = "connecting"
  /\ socket' = [socket EXCEPT ![r] = "closed"]
  /\ broken' = [broken EXCEPT ![r] = "error"]
  /\ wsRefs' = wsRefs \ {r}
  /\ UNCHANGED <<ops, wire, server>>

\* No connection, or the server refuses the token: "error", then "close".
OnRefused(r) ==
  /\ socket[r] = "connecting"
  /\ socket' = [socket EXCEPT ![r] = "closed"]
  /\ broken' = [broken EXCEPT ![r] = "error"]
  /\ Update(r, "error", {})
  /\ wsRefs' = wsRefs \ {r}
  /\ UNCHANGED <<wire, server>>

\* Seeded: the data of a message is the status.
OnMessageRaw(r) ==
  /\ socket[r] = "open" /\ wire[r] # << >>
  /\ Update(r, IF Head(wire[r]).type = "done" THEN Head(wire[r]).data ELSE StatusOf(r), {})
  /\ wire' = [wire EXCEPT ![r] = Tail(@)]
  /\ UNCHANGED <<wsRefs, socket, server, broken>>

OnMessage(r) ==
  /\ socket[r] = "open" /\ wire[r] # << >>
  /\ LET msg == Head(wire[r]) IN
       CASE msg.type = "log"  -> Update(r, StatusOf(r), {msg.data})
         [] msg.type = "done" -> Update(r, IF msg.data = "error" THEN "error" ELSE "done", {})
         [] msg.type = "approval_required" -> Update(r, "done", {"approval"})
         [] msg.type = "error" -> Update(r, "error", {"error"})   \* "ERROR: " matches /Error:/i
         [] OTHER -> UNCHANGED ops
  /\ wire' = [wire EXCEPT ![r] = Tail(@)]
  /\ UNCHANGED <<wsRefs, socket, server, broken>>

\* The handler returned and closed the connection.
OnClose(r) ==
  /\ socket[r] = "open" /\ server[r].stage = "ended" /\ wire[r] = << >>
  /\ socket' = [socket EXCEPT ![r] = "closed"]
  /\ wsRefs' = wsRefs \ {r}
  /\ UNCHANGED <<ops, wire, server, broken>>

\* The connection goes with what is on it: a backend that restarts, a proxy
\* that times out.  Whether there is an "error" before the "close" is up to the
\* browser and to how it went.
OnLost(r) ==
  /\ socket[r] = "open"
  /\ socket' = [socket EXCEPT ![r] = "closed"]
  /\ wire' = [wire EXCEPT ![r] = << >>]
  /\ wsRefs' = wsRefs \ {r}
  /\ \/ /\ Update(r, "error", {})
        /\ broken' = [broken EXCEPT ![r] = "error"]
     \/ /\ broken' = [broken EXCEPT ![r] = "silent"]
        /\ UNCHANGED ops
  /\ UNCHANGED server

-----------------------------------------------------------------------------
(* The server                                                              *)

\* A message to a client that has gone is dropped, the run goes on.
Send(r, msg) ==
  wire' = IF socket[r] = "open" THEN [wire EXCEPT ![r] = Append(@, msg)] ELSE wire

\* What Terraform prints, as far as the client tells it apart.
Output(action, outcome) ==
  CASE outcome = "launch"  -> {<<"text">>}
    [] outcome = "failure" -> {<<"error">>, <<"plan", "error">>, <<"plan", "text">>}
    [] outcome = "success" /\ action = "plan" -> {<<"plan">>, <<"nochanges">>}
    [] outcome = "success" /\ action = "apply" -> {<<"plan", "applied">>, <<"nochanges", "applied">>}
    [] OTHER -> {<<"plan", "destroyed">>}

Decline(r, outcome, type) ==
  /\ server' = [server EXCEPT ![r].stage = "ended", ![r].outcome = outcome]
  /\ Send(r, [type |-> type, data |-> "text"])

Begin(r, outcome) ==
  /\ \E out \in Output(server[r].action, outcome) :
       server' = [server EXCEPT ![r].stage = "running", ![r].outcome = outcome, ![r].out = out]
  /\ Send(r, [type |-> "started", data |-> "text"])

Answer(r) ==
  /\ server[r].stage = "asked"
  /\ \/ Decline(r, "refused", "error")
     \/ server[r].action # "plan" /\ Decline(r, "approval", "approval_required")
     \/ \E outcome \in {"launch", "success", "failure"} : Begin(r, outcome)
  /\ UNCHANGED <<client, broken>>

PrintLine(r) ==
  /\ server[r].stage = "running" /\ server[r].out # << >>
  /\ server' = [server EXCEPT ![r].out = Tail(@)]
  /\ Send(r, [type |-> "log", data |-> Head(server[r].out)])
  /\ UNCHANGED <<client, broken>>

\* Seeded: a container that does not start has its log line as its last message.
FinishStarted(r) ==
  /\ server[r].stage = "running"
  /\ server' = [server EXCEPT ![r].stage = "ended", ![r].out = << >>]
  /\ IF server[r].outcome = "launch" THEN UNCHANGED wire
     ELSE Send(r, [type |-> "done", data |-> IF server[r].outcome = "success" THEN "success" ELSE "error"])
  /\ UNCHANGED <<client, broken>>

\* The last lines of a container may be lost on their way (RunStream).
Finish(r) ==
  /\ server[r].stage = "running"
  /\ server[r].outcome = "launch" => server[r].out = << >>
  /\ server' = [server EXCEPT ![r].stage = "ended", ![r].out = << >>]
  /\ Send(r, [type |-> "done", data |-> IF server[r].outcome = "success" THEN "success" ELSE "error"])
  /\ UNCHANGED <<client, broken>>

ServerStep(r) == Answer(r) \/ PrintLine(r) \/ Finish(r)

-----------------------------------------------------------------------------
(* What the user sees                                                      *)

\* Seeded: an output without an error is a success.
CompletionByDefault(logs) ==
  IF "error" \in logs THEN "error"
  ELSE IF "plan" \in logs \/ "nochanges" \in logs THEN "success" ELSE "none"

\* completionStatus of PlanModal: the first words that are found decide.
CompletionStatus(logs) ==
  IF logs \cap {"applied", "destroyed"} # {} THEN "success"
  ELSE IF ("plan" \in logs /\ "error" \notin logs) \/ "nochanges" \in logs THEN "info"
  ELSE IF "error" \in logs THEN "error" ELSE "none"

\* The dot of the modal is green unless the words say otherwise, whatever the
\* status of the operation.
ModalDot(o) ==
  IF o.status = "running" THEN "warning"
  ELSE IF CompletionStatus(o.logs) = "error" THEN "red" ELSE "green"

\* The accent of a bar.
BarAccent(o) ==
  CASE o.status = "running" -> "warning"
    [] o.status = "error"   -> "red"
    [] o.status = "done"    -> "green"

Next ==
  \/ \E r \in Runs, a \in Actions : StartOperation(r, a)
  \/ \E r \in Runs : DismissOperation(r)
  \/ Unmount
  \/ \E r \in Runs : OnOpen(r) \/ OnRefused(r) \/ OnMessage(r) \/ OnClose(r) \/ OnLost(r)
  \/ \E r \in Runs : ServerStep(r)

\* Runs end and connections deliver; nothing is expected of the user.
Fairness ==
  \A r \in Runs :
    /\ WF_vars(OnOpen(r) \/ OnRefused(r)) /\ WF_vars(OnMessage(r))
    /\ WF_vars(Answer(r)) /\ WF_vars(PrintLine(r)) /\ WF_vars(Finish(r))

Spec == Init /\ [][Next]_vars /\ Fairness

-----------------------------------------------------------------------------
(* Properties                                                              *)

\* A green bar is a run that succeeded or waits for its approval; a red one is
\* a run that failed or was refused, or a connection that broke.  The verdict
\* of OperationContext is set by four kinds of message and two events, the last
\* of which may come after the end (OperationContext.js:62-101).
BarTellsVerdict ==
  \A r \in Runs :
    /\ StatusOf(r) = "done" => server[r].outcome \in {"success", "approval"}
    /\ StatusOf(r) = "error" => \/ server[r].outcome \in {"launch", "failure", "refused"}
                                \/ broken[r] = "error" \/ socket[r] = "none"

\* A bar that says "running" has a run or a message behind it, unless its
\* connection closed without an error event: onclose leaves the operation as it
\* is, and a running bar has no button (OperationContext.js:99,
\* OperationBars.js:84).
RunningBarIsServed ==
  \A r \in Runs : StatusOf(r) = "running" =>
    \/ socket[r] = "connecting"
    \/ socket[r] = "open" /\ (server[r].stage # "ended" \/ wire[r] # << >>)
    \/ broken[r] = "silent"

\* The modal says "Completed Successfully" only of a run that Terraform
\* completed, although it judges by words and not by the verdict
\* (PlanModal.js:83-103).
SuccessIsEarned ==
  \A r \in Runs : ops[r] # NoOp /\ CompletionStatus(ops[r].logs) = "success"
                    => server[r].outcome = "success"

\* What the client tells of a run is so: the colour of its bar and the words of
\* its modal (OperationContext.js:62-101, PlanModal.js:83-103).
ToldAsItEnded == BarTellsVerdict /\ SuccessIsEarned

\* Every bar gets its verdict, unless its connection broke without an error
\* event, or the user left.
EveryBarEnds ==
  \A r \in Runs : StatusOf(r) = "running" ~> (StatusOf(r) # "running" \/ broken[r] = "silent")

\* PlanModal.js:154-158 colours its dot for the operation OperationBars shows,
\* as OperationBars does (OperationBars.js:38-42): red for a failed run.  It does
\* not hold, and no run asks for it: the modal looks at words alone, and a run
\* that failed without "Error:" among them has a green dot and a red bar.
ModalAgreesWithBar ==
  \A r \in Runs : ops[r] # NoOp => (BarAccent(ops[r]) = "red" => ModalDot(ops[r]) = "red")

=============================================================================
