------------------------- MODULE OperationBarsProofs ------------------------
(***************************************************************************)
(* What holds of OperationBars for any number of runs and every way their  *)
(* sockets may open, break and close.                                      *)
(*                                                                         *)
(* A verdict reaches the bar through the wire, so the inductive invariant  *)
(* says of a run what the messages under way say of its outcome, that the  *)
(* last message of an ended run is a verdict, and that nothing is sent     *)
(* before the run has answered.                                            *)
(***************************************************************************)
EXTENDS OperationBars, TLAPS

\* The record of a run in server.
Handler == [action : Actions \cup {"none"}, stage : {"idle", "asked", "running", "ended"},
            outcome : Outcomes, out : Seq(Lines)]

\* What a message tells is so.
Says(msg, outcome) ==
  /\ msg.type = "done" /\ msg.data = "success" => outcome = "success"
  /\ msg.type = "done" /\ msg.data = "error" => outcome \in {"launch", "failure"}
  /\ msg.type = "approval_required" => outcome = "approval"
  /\ msg.type = "error" => outcome = "refused"
  /\ msg.type = "log" /\ msg.data \in {"applied", "destroyed"} => outcome = "success"

IsVerdict(msg) == msg.type \in {"done", "approval_required", "error"}

\* A run that was not started has no operation, no socket and no message.
Unstarted(r) ==
  server[r].action = "none" => ops[r] = NoOp /\ socket[r] = "none"

\* A run that has not answered has no outcome and has sent nothing.
Unanswered(r) ==
  /\ socket[r] \in {"none", "connecting"} => server[r].stage = "idle"
  /\ socket[r] \in {"none", "connecting", "open"} => broken[r] = "no"
  /\ server[r].stage \in {"idle", "asked"} => server[r].outcome = "unknown" /\ wire[r] = << >>
  /\ server[r].stage = "running" => server[r].outcome \in {"launch", "success", "failure"}

\* What the run will print and what it has sent agree with its outcome.
WireTells(r) ==
  /\ \A i \in 1..Len(server[r].out) :
       server[r].out[i] \in {"applied", "destroyed"} => server[r].outcome = "success"
  /\ \A i \in 1..Len(wire[r]) : Says(wire[r][i], server[r].outcome)

\* The last thing an ended run has sent is its verdict.
VerdictIsLast(r) ==
  server[r].stage = "ended" /\ socket[r] = "open" /\ wire[r] # << >> => IsVerdict(wire[r][Len(wire[r])])

\* BarTellsVerdict and SuccessIsEarned, of one run.
Told(r) ==
  /\ StatusOf(r) = "done" => server[r].outcome \in {"success", "approval"}
  /\ StatusOf(r) = "error" => \/ server[r].outcome \in {"launch", "failure", "refused"}
                              \/ broken[r] = "error" \/ socket[r] = "none"
  /\ ops[r] # NoOp /\ ops[r].logs \cap {"applied", "destroyed"} # {} => server[r].outcome = "success"

Served(r) ==
  StatusOf(r) = "running" =>
    \/ socket[r] = "connecting"
    \/ socket[r] = "open" /\ (server[r].stage # "ended" \/ wire[r] # << >>)
    \/ broken[r] = "silent"

Holds(r) == Unstarted(r) /\ Unanswered(r) /\ WireTells(r) /\ VerdictIsLast(r) /\ Told(r) /\ Served(r)

IInv == TypeOK /\ \A r \in Runs : Holds(r)


USE BarsAssumption, NoOpAssumption

LEMMA InitInv == Init => IInv
<1> SUFFICES ASSUME Init PROVE IInv
  OBVIOUS
<1>1. << >> \in Seq(Lines) /\ << >> \in Seq(Messages)
  OBVIOUS
<1>2. TypeOK
  BY <1>1 DEF Init, TypeOK, Outcomes
<1>3. ASSUME NEW r \in Runs PROVE Holds(r)
  BY <1>3 DEF Init, Holds, Unstarted, Unanswered, WireTells, VerdictIsLast, Told, Served, StatusOf
<1> QED
  BY <1>2, <1>3 DEF IInv

\* What a step leaves alone of a run, it leaves true.
LEMMA Untouched ==
  ASSUME NEW r \in Runs, Holds(r), ops'[r] = ops[r], socket'[r] = socket[r], wire'[r] = wire[r],
         server'[r] = server[r], broken'[r] = broken[r]
  PROVE  Holds(r)'
  BY DEF Holds, Unstarted, Unanswered, WireTells, VerdictIsLast, Told, Served, StatusOf

\* A step at one run: its type, what it makes of that run, and the others.
Elsewhere(q) ==
  \A r \in Runs \ {q} : /\ ops'[r] = ops[r] /\ socket'[r] = socket[r] /\ wire'[r] = wire[r]
                        /\ server'[r] = server[r] /\ broken'[r] = broken[r]

LEMMA OneRun ==
  ASSUME IInv, NEW q \in Runs, TypeOK', Holds(q)', Elsewhere(q)
  PROVE  IInv'
<1>1. ASSUME NEW r \in Runs PROVE Holds(r)'
  <2>1. CASE r = q
    BY <2>1
  <2>2. CASE r # q
    <3>1. /\ Holds(r) /\ ops'[r] = ops[r] /\ socket'[r] = socket[r] /\ wire'[r] = wire[r]
          /\ server'[r] = server[r] /\ broken'[r] = broken[r]
      BY <2>2 DEF IInv, Elsewhere
    <3> QED
      BY <3>1, Untouched
  <2> QED
    BY <2>1, <2>2
<1> QED
  BY <1>1 DEF IInv

-----------------------------------------------------------------------------
(* The wire                                                                *)

LEMMA SendTells ==
  ASSUME TypeOK, NEW q \in Runs, NEW msg \in Messages, Send(q, msg)
  PROVE  /\ wire' \in [Runs -> Seq(Messages)]
         /\ \A r \in Runs \ {q} : wire'[r] = wire[r]
         /\ socket[q] # "open" => wire' = wire
         /\ socket[q] = "open" => wire'[q] = Append(wire[q], msg)
  BY DEF Send, TypeOK

\* A message that is added, and one that is taken.
LEMMA Appended ==
  ASSUME NEW s \in Seq(Messages), NEW msg \in Messages, NEW outcome,
         \A i \in 1..Len(s) : Says(s[i], outcome), Says(msg, outcome)
  PROVE  \A i \in 1..Len(Append(s, msg)) : Says(Append(s, msg)[i], outcome)
<1> SUFFICES ASSUME NEW i \in 1..Len(Append(s, msg)) PROVE Says(Append(s, msg)[i], outcome)
  OBVIOUS
<1>1. Append(s, msg)[i] = IF i \in 1..Len(s) THEN s[i] ELSE msg
  OBVIOUS
<1> QED
  BY <1>1

LEMMA Taken ==
  ASSUME NEW S, NEW s \in Seq(S), s # << >>
  PROVE  /\ Head(s) = s[1] /\ 1 \in 1..Len(s) /\ Head(s) \in S
         /\ Tail(s) \in Seq(S)
         /\ \A i \in 1..Len(Tail(s)) : i + 1 \in 1..Len(s) /\ Tail(s)[i] = s[i + 1]
         /\ Tail(s) = << >> => s[Len(s)] = Head(s)
         /\ Tail(s) # << >> => Tail(s)[Len(Tail(s))] = s[Len(s)]
<1>1. Len(s) \in Nat /\ Len(s) > 0
  OBVIOUS
<1>2. Head(s) = s[1] /\ 1 \in 1..Len(s) /\ Head(s) \in S
  BY <1>1
<1>3. Tail(s) \in Seq(S) /\ Len(Tail(s)) = Len(s) - 1
  BY <1>1
<1>4. \A i \in 1..Len(Tail(s)) : i + 1 \in 1..Len(s) /\ Tail(s)[i] = s[i + 1]
  BY <1>1, <1>3
<1>5. ASSUME Tail(s) = << >> PROVE s[Len(s)] = Head(s)
  <2>0. Len(<< >>) = 0
    OBVIOUS
  <2>1. Len(Tail(s)) = 0
    BY <1>5, <2>0, Zenon
  <2>2. Len(s) = 1
    BY <2>1, <1>1, <1>3
  <2> QED
    BY <2>2, <1>2
<1>6. ASSUME Tail(s) # << >> PROVE Tail(s)[Len(Tail(s))] = s[Len(s)]
  <2>1. Len(Tail(s)) \in 1..Len(Tail(s))
    BY <1>1, <1>3, <1>6
  <2> QED
    BY <2>1, <1>1, <1>3, <1>4
<1> QED
  BY <1>2, <1>3, <1>4, <1>5, <1>6

-----------------------------------------------------------------------------
(* What the user does                                                      *)

LEMMA StartStep ==
  ASSUME IInv, NEW q \in Runs, NEW a \in Actions, StartOperation(q, a)
  PROVE  IInv'
<1> DEFINE record(c) == [status |-> IF c THEN "running" ELSE "error", logs |-> {"starting"}]
<1>1. PICK c \in BOOLEAN :
        /\ ops' = [ops EXCEPT ![q] = record(c)]
        /\ wsRefs' = IF c THEN wsRefs \cup {q} ELSE wsRefs
        /\ socket' = IF c THEN [socket EXCEPT ![q] = "connecting"] ELSE socket
  BY DEF StartOperation
<1>2. record(c) \in Operation
  BY DEF Operation, Words
<1>3. /\ server[q].action = "none" /\ wire' = wire /\ broken' = broken
      /\ server' = [server EXCEPT ![q].action = a]
  BY DEF StartOperation
<1>4. Holds(q) /\ TypeOK
  BY DEF IInv
<1>5. TypeOK'
  <2>1. ops' \in [Runs -> Operation \cup {NoOp}] /\ wsRefs' \subseteq Runs
    <3> HIDE DEF record
    <3> QED BY <1>1, <1>2, <1>4 DEF TypeOK
  <2>2. socket' \in [Runs -> {"none", "connecting", "open", "closed"}]
    BY <1>1, <1>4 DEF TypeOK
  <2>3. server' \in [Runs -> Handler]
    <3>1. server \in [Runs -> Handler] /\ [server[q] EXCEPT !.action = a] \in Handler
      BY <1>4 DEF TypeOK, Handler
    <3> QED BY <3>1, <1>3
  <2> QED
    BY <1>3, <1>4, <2>1, <2>2, <2>3 DEF TypeOK, Handler
<1>6. Elsewhere(q)
  BY <1>1, <1>3, <1>4 DEF Elsewhere, TypeOK
<1>7. Holds(q)'
  <2>1. /\ ops'[q] = record(c) /\ socket'[q] = IF c THEN "connecting" ELSE "none"
        /\ wire'[q] = << >> /\ broken'[q] = "no"
        /\ server'[q].stage = "idle" /\ server'[q].outcome = "unknown" /\ server'[q].action # "none"
        /\ server'[q].out = server[q].out
    BY <1>1, <1>3, <1>4 DEF TypeOK, Holds, Unstarted, Unanswered
  <2>2. WireTells(q)'
    BY <1>4, <2>1, <1>3 DEF Holds, WireTells, Unanswered, Unstarted
  <2> QED
    BY <2>1, <2>2 DEF Holds, Unstarted, Unanswered, VerdictIsLast, Told, Served, StatusOf
<1> QED
  BY <1>5, <1>6, <1>7, OneRun

LEMMA DismissStep ==
  ASSUME IInv, NEW q \in Runs, DismissOperation(q)
  PROVE  IInv'
<1>1. Holds(q) /\ TypeOK
  BY DEF IInv
<1>2. /\ ops' = [ops EXCEPT ![q] = NoOp] /\ wsRefs' = wsRefs \ {q} /\ server' = server /\ broken' = broken
      /\ socket' = [socket EXCEPT ![q] = IF q \in wsRefs THEN "closed" ELSE @]
      /\ wire' = [wire EXCEPT ![q] = IF q \in wsRefs THEN << >> ELSE @]
      /\ ops[q] # NoOp
  BY DEF DismissOperation, Dismissable, StatusOf
<1>3. TypeOK'
  BY <1>1, <1>2 DEF TypeOK
<1>4. Elsewhere(q)
  BY <1>1, <1>2 DEF Elsewhere, TypeOK
<1>5. Holds(q)'
  BY <1>1, <1>2 DEF TypeOK, Holds, Unstarted, Unanswered, WireTells, VerdictIsLast, Told, Served, StatusOf
<1> QED
  BY <1>3, <1>4, <1>5, OneRun

LEMMA UnmountStep ==
  ASSUME IInv, Unmount
  PROVE  IInv'
<1>1. TypeOK'
  BY DEF IInv, TypeOK, Unmount
<1>2. ASSUME NEW r \in Runs PROVE Holds(r)'
  BY DEF IInv, Unmount, Holds, Unstarted, Unanswered, WireTells, VerdictIsLast, Told, Served, StatusOf
<1> QED
  BY <1>1, <1>2 DEF IInv

-----------------------------------------------------------------------------
(* The events of a socket                                                  *)

\* A verdict that is set, or words that are added, on an operation that may
\* have gone.
LEMMA UpdateType ==
  ASSUME TypeOK, NEW q \in Runs, NEW status \in {"running", "done", "error"} \cup {StatusOf(q)},
         NEW words \in SUBSET Words, Update(q, status, words)
  PROVE  /\ ops' \in [Runs -> Operation \cup {NoOp}]
         /\ \A r \in Runs \ {q} : ops'[r] = ops[r]
         /\ ops[q] = NoOp => ops'[q] = NoOp
         /\ ops[q] # NoOp => /\ ops'[q] # NoOp /\ ops'[q].status = status
                             /\ ops'[q].logs = ops[q].logs \cup words
<1>1. CASE ops[q] = NoOp
  BY <1>1 DEF Update, TypeOK
<1>2. CASE ops[q] # NoOp
  <2> DEFINE o == [status |-> status, logs |-> ops[q].logs \cup words]
  <2>1. ops[q] \in Operation
    BY <1>2 DEF TypeOK
  <2>2. status \in {"running", "done", "error"} /\ ops[q].logs \cup words \subseteq Words
    BY <1>2, <2>1 DEF StatusOf, Operation
  <2>3. o \in Operation /\ o.status = status /\ o.logs = ops[q].logs \cup words
    BY <2>1, <2>2 DEF Operation
  <2>4. ops' = [ops EXCEPT ![q] = o]
    BY <1>2 DEF Update
  <2> HIDE DEF o
  <2> QED
    BY <1>2, <2>3, <2>4 DEF TypeOK
<1> QED
  BY <1>1, <1>2

LEMMA OpenStep ==
  ASSUME IInv, NEW q \in Runs, OnOpen(q)
  PROVE  IInv'
<1>1. Holds(q) /\ TypeOK
  BY DEF IInv
<1>2. /\ socket[q] = "connecting" /\ socket' = [socket EXCEPT ![q] = "open"]
      /\ server' = [server EXCEPT ![q].stage = "asked"]
      /\ ops' = ops /\ wsRefs' = wsRefs /\ wire' = wire /\ broken' = broken
  BY DEF OnOpen
<1>3. TypeOK'
  <2>1. server \in [Runs -> Handler] /\ [server[q] EXCEPT !.stage = "asked"] \in Handler
    BY <1>1 DEF TypeOK, Handler
  <2>2. server' \in [Runs -> Handler]
    BY <2>1, <1>2
  <2>3. socket' \in [Runs -> {"none", "connecting", "open", "closed"}]
    BY <1>1, <1>2 DEF TypeOK
  <2> QED
    BY <1>1, <1>2, <2>2, <2>3 DEF TypeOK, Handler
<1>4. Elsewhere(q)
  BY <1>1, <1>2 DEF Elsewhere, TypeOK
<1>5. Holds(q)'
  <2>1. /\ socket'[q] = "open" /\ server'[q].stage = "asked" /\ server'[q].outcome = server[q].outcome
        /\ server'[q].action = server[q].action /\ server'[q].out = server[q].out
    BY <1>1, <1>2 DEF TypeOK
  <2>2. WireTells(q)'
    BY <1>1, <1>2, <2>1 DEF Holds, WireTells
  <2> QED
    BY <1>1, <1>2, <2>1, <2>2 DEF Holds, Unstarted, Unanswered, VerdictIsLast, Told, Served, StatusOf
<1> QED
  BY <1>3, <1>4, <1>5, OneRun

\* A connection that ends with an "error" turns the bar red.
LEMMA ErrorStep ==
  ASSUME IInv, NEW q \in Runs, socket[q] \in {"connecting", "open"},
         Update(q, "error", {}), socket' = [socket EXCEPT ![q] = "closed"],
         broken' = [broken EXCEPT ![q] = "error"], wsRefs' = wsRefs \ {q},
         server' = server, wire' = wire \/ wire' = [wire EXCEPT ![q] = << >>]
  PROVE  IInv'
<1>1. Holds(q) /\ TypeOK
  BY DEF IInv
<1>2. /\ ops' \in [Runs -> Operation \cup {NoOp}] /\ \A r \in Runs \ {q} : ops'[r] = ops[r]
      /\ ops[q] = NoOp => ops'[q] = NoOp
      /\ ops[q] # NoOp => ops'[q] # NoOp /\ ops'[q].status = "error" /\ ops'[q].logs = ops[q].logs \cup {}
  <2>1. "error" \in {"running", "done", "error"} \cup {StatusOf(q)} /\ {} \in SUBSET Words
    OBVIOUS
  <2> QED
    BY <1>1, <2>1, UpdateType
<1>3. TypeOK'
  <2>1. << >> \in Seq(Messages)
    OBVIOUS
  <2>2. wire' \in [Runs -> Seq(Messages)]
    BY <1>1, <2>1 DEF TypeOK
  <2>3. /\ socket' \in [Runs -> {"none", "connecting", "open", "closed"}]
        /\ broken' \in [Runs -> {"no", "error", "silent"}]
    BY <1>1 DEF TypeOK
  <2> QED
    BY <1>1, <1>2, <2>2, <2>3 DEF TypeOK
<1>4. Elsewhere(q)
  BY <1>1, <1>2 DEF Elsewhere, TypeOK
<1>5. socket'[q] = "closed" /\ broken'[q] = "error" /\ wire'[q] \in {wire[q], << >>}
  BY <1>1 DEF TypeOK
<1>6. WireTells(q)'
  BY <1>1, <1>5 DEF Holds, WireTells
<1>7. Told(q)'
  BY <1>1, <1>2, <1>5 DEF Holds, Told, StatusOf
<1>8. Holds(q)'
  BY <1>1, <1>2, <1>5, <1>6, <1>7 DEF Holds, Unstarted, Unanswered, VerdictIsLast, Served, StatusOf
<1> QED
  BY <1>3, <1>4, <1>8, OneRun

LEMMA RefusedStep ==
  ASSUME IInv, NEW q \in Runs, OnRefused(q)
  PROVE  IInv'
  BY ErrorStep DEF OnRefused

LEMMA CloseStep ==
  ASSUME IInv, NEW q \in Runs, OnClose(q)
  PROVE  IInv'
<1>1. Holds(q) /\ TypeOK
  BY DEF IInv
<1>2. /\ socket[q] = "open" /\ server[q].stage = "ended" /\ wire[q] = << >>
      /\ socket' = [socket EXCEPT ![q] = "closed"] /\ wsRefs' = wsRefs \ {q}
      /\ ops' = ops /\ wire' = wire /\ server' = server /\ broken' = broken
  BY DEF OnClose
<1>3. TypeOK'
  BY <1>1, <1>2 DEF TypeOK
<1>4. Elsewhere(q)
  BY <1>1, <1>2 DEF Elsewhere, TypeOK
<1>5. socket'[q] = "closed"
  BY <1>1, <1>2 DEF TypeOK
<1>6. Holds(q)'
  BY <1>1, <1>2, <1>5 DEF Holds, Unstarted, Unanswered, WireTells, VerdictIsLast, Told, Served, StatusOf
<1> QED
  BY <1>3, <1>4, <1>6, OneRun

LEMMA LostStep ==
  ASSUME IInv, NEW q \in Runs, OnLost(q)
  PROVE  IInv'
<1>1. CASE Update(q, "error", {}) /\ broken' = [broken EXCEPT ![q] = "error"]
  BY <1>1, ErrorStep DEF OnLost
<1>2. CASE broken' = [broken EXCEPT ![q] = "silent"] /\ UNCHANGED ops
  <2>1. Holds(q) /\ TypeOK
    BY DEF IInv
  <2>2. /\ socket[q] = "open" /\ socket' = [socket EXCEPT ![q] = "closed"] /\ wsRefs' = wsRefs \ {q}
        /\ wire' = [wire EXCEPT ![q] = << >>] /\ server' = server
    BY DEF OnLost
  <2>3. TypeOK'
    BY <1>2, <2>1, <2>2 DEF TypeOK
  <2>4. Elsewhere(q)
    BY <1>2, <2>1, <2>2 DEF Elsewhere, TypeOK
  <2>5. socket'[q] = "closed" /\ broken'[q] = "silent" /\ wire'[q] = << >>
    BY <1>2, <2>1, <2>2 DEF TypeOK
  <2>6. Holds(q)'
    BY <1>2, <2>1, <2>2, <2>5
       DEF Holds, Unstarted, Unanswered, WireTells, VerdictIsLast, Told, Served, StatusOf
  <2> QED
    BY <2>3, <2>4, <2>6, OneRun
<1> QED
  BY <1>1, <1>2 DEF OnLost

\* What a message makes of its operation.
Tells(q, msg) ==
  /\ ops' \in [Runs -> Operation \cup {NoOp}]
  /\ \A r \in Runs \ {q} : ops'[r] = ops[r]
  /\ ops[q] = NoOp => ops'[q] = NoOp
  /\ ops[q] # NoOp =>
       /\ ops'[q] # NoOp
       /\ \/ ops'[q].status = ops[q].status /\ ~IsVerdict(msg)
          \/ ops'[q].status = "done" /\ server[q].outcome \in {"success", "approval"}
          \/ ops'[q].status = "error" /\ server[q].outcome \in {"launch", "failure", "refused"}
       /\ ops'[q].logs \cap {"applied", "destroyed"} # {} => server[q].outcome = "success"

LEMMA UpdateTells ==
  ASSUME TypeOK, NEW q \in Runs, Told(q), NEW msg,
         NEW status \in {"running", "done", "error"} \cup {StatusOf(q)},
         NEW words \in SUBSET Words, Update(q, status, words),
         words \cap {"applied", "destroyed"} # {} => server[q].outcome = "success",
         \/ status = StatusOf(q) /\ ~IsVerdict(msg)
         \/ status = "done" /\ server[q].outcome \in {"success", "approval"}
         \/ status = "error" /\ server[q].outcome \in {"launch", "failure", "refused"}
  PROVE  Tells(q, msg)
<1>1. /\ ops' \in [Runs -> Operation \cup {NoOp}]
      /\ \A r \in Runs \ {q} : ops'[r] = ops[r]
      /\ ops[q] = NoOp => ops'[q] = NoOp
      /\ ops[q] # NoOp => /\ ops'[q] # NoOp /\ ops'[q].status = status
                          /\ ops'[q].logs = ops[q].logs \cup words
  BY UpdateType
<1> QED
  BY <1>1 DEF Tells, Told, StatusOf

LEMMA MessageTells ==
  ASSUME IInv, NEW q \in Runs, wire[q] # << >>, OnMessage(q)
  PROVE  Tells(q, Head(wire[q]))
<1> DEFINE msg == Head(wire[q])
<1>1. Holds(q) /\ TypeOK
  BY DEF IInv
<1>2. msg \in Messages /\ Says(msg, server[q].outcome)
  BY <1>1, Taken DEF TypeOK, Holds, WireTells
<1> HIDE DEF msg
<1>t. Told(q)
  BY <1>1 DEF Holds
<1>o. ops' = ops /\ ~IsVerdict(msg) => Tells(q, msg)
  BY <1>1, <1>t DEF Tells, Told, StatusOf, TypeOK
<1>4. CASE msg.type = "log"
  <2>1. Update(q, StatusOf(q), {msg.data})
    BY <1>4 DEF OnMessage, msg
  <2>2. {msg.data} \in SUBSET Words
    BY <1>2, <1>4 DEF Messages, Words
  <2>3. msg.data \in {"applied", "destroyed"} => server[q].outcome = "success"
    BY <1>2, <1>4 DEF Says
  <2> QED
    <3>1. {msg.data} \cap {"applied", "destroyed"} # {} => server[q].outcome = "success"
      BY <2>3
    <3>2. ~IsVerdict(msg)
      BY <1>4 DEF IsVerdict
    <3> QED
      BY <1>1, <1>t, <2>1, <2>2, <3>1, <3>2, UpdateTells DEF msg
<1>5. CASE msg.type = "done"
  <2> DEFINE st == IF msg.data = "error" THEN "error" ELSE "done"
  <2>1. Update(q, st, {})
    BY <1>5 DEF OnMessage, msg
  <2>2. {} \in SUBSET Words /\ st \in {"running", "done", "error"} \cup {StatusOf(q)}
    OBVIOUS
  <2>3. msg.data \in {"success", "error"}
    BY <1>2, <1>5 DEF Messages
  <2>4. \/ st = "done" /\ server[q].outcome = "success"
        \/ st = "error" /\ server[q].outcome \in {"launch", "failure"}
    BY <1>2, <1>5, <2>3 DEF Says
  <2> HIDE DEF st
  <2> QED
    BY <1>1, <1>t, <2>1, <2>2, <2>4, UpdateTells
<1>6. CASE msg.type = "approval_required"
  <2>1. Update(q, "done", {"approval"})
    BY <1>6 DEF OnMessage, msg
  <2>2. {"approval"} \in SUBSET Words /\ "done" \in {"running", "done", "error"} \cup {StatusOf(q)}
    BY DEF Words
  <2>3. server[q].outcome = "approval"
    BY <1>2, <1>6 DEF Says
  <2> QED
    BY <1>1, <1>t, <2>1, <2>2, <2>3, UpdateTells
<1>7. CASE msg.type = "error"
  <2>1. Update(q, "error", {"error"})
    BY <1>7 DEF OnMessage, msg
  <2>2. {"error"} \in SUBSET Words /\ "error" \in {"running", "done", "error"} \cup {StatusOf(q)}
    BY DEF Words, Lines
  <2>3. server[q].outcome = "refused"
    BY <1>2, <1>7 DEF Says
  <2> QED
    BY <1>1, <1>t, <2>1, <2>2, <2>3, UpdateTells
<1>8. CASE msg.type = "started"
  <2>1. UNCHANGED ops
    BY <1>8 DEF OnMessage, msg
  <2> QED
    BY <1>o, <1>8, <2>1 DEF IsVerdict, msg
<1>9. msg.type \in {"log", "done", "started", "approval_required", "error"}
  BY <1>2 DEF Messages
<1> QED
  BY <1>4, <1>5, <1>6, <1>7, <1>8, <1>9 DEF msg

LEMMA MessageStep ==
  ASSUME IInv, NEW q \in Runs, OnMessage(q)
  PROVE  IInv'
<1> DEFINE msg == Head(wire[q])
<1>1. Holds(q) /\ TypeOK
  BY DEF IInv
<1>2. /\ socket[q] = "open" /\ wire[q] # << >> /\ wire' = [wire EXCEPT ![q] = Tail(@)]
      /\ wsRefs' = wsRefs /\ socket' = socket /\ server' = server /\ broken' = broken
  BY DEF OnMessage
<1>3. Tells(q, msg)
  BY <1>2, MessageTells
<1>w. wire[q] \in Seq(Messages)
  BY <1>1 DEF TypeOK
<1>4. /\ Tail(wire[q]) \in Seq(Messages)
      /\ \A i \in 1..Len(Tail(wire[q])) : i + 1 \in 1..Len(wire[q]) /\ Tail(wire[q])[i] = wire[q][i + 1]
      /\ Tail(wire[q]) = << >> => wire[q][Len(wire[q])] = msg
      /\ Tail(wire[q]) # << >> => Tail(wire[q])[Len(Tail(wire[q]))] = wire[q][Len(wire[q])]
  BY <1>2, <1>w, Taken
<1>5. wire'[q] = Tail(wire[q])
  BY <1>1, <1>2 DEF TypeOK
<1>6. TypeOK'
  <2>1. wire' \in [Runs -> Seq(Messages)]
    BY <1>1, <1>2, <1>4 DEF TypeOK
  <2> QED
    BY <1>1, <1>2, <1>3, <2>1 DEF TypeOK, Tells
<1>7. Elsewhere(q)
  BY <1>1, <1>2, <1>3 DEF Elsewhere, TypeOK, Tells
<1> HIDE DEF msg
<1>8. WireTells(q)'
  BY <1>1, <1>2, <1>4, <1>5 DEF Holds, WireTells
<1>9. VerdictIsLast(q)' /\ Unstarted(q)' /\ Unanswered(q)'
  BY <1>1, <1>2, <1>4, <1>5 DEF Holds, VerdictIsLast, Unstarted, Unanswered
<1>10. Told(q)'
  BY <1>1, <1>2, <1>3 DEF Holds, Told, Tells, StatusOf
<1>11. Served(q)'
  <2>1. CASE server[q].stage = "ended" /\ Tail(wire[q]) = << >>
    <3>1. IsVerdict(msg)
      BY <1>1, <1>2, <1>4, <2>1 DEF Holds, VerdictIsLast
    <3> QED
      BY <1>3, <3>1 DEF Tells, Served, StatusOf
  <2>2. CASE ~(server[q].stage = "ended" /\ Tail(wire[q]) = << >>)
    BY <1>2, <1>5, <2>2 DEF Served
  <2> QED
    BY <2>1, <2>2
<1> QED
  BY <1>6, <1>7, <1>8, <1>9, <1>10, <1>11, OneRun DEF Holds

-----------------------------------------------------------------------------
(* The server                                                              *)

\* The messages of a handler, in one form: one is sent, the record of the run
\* changes, the client does not.
LEMMA ServerSends ==
  ASSUME IInv, NEW q \in Runs, NEW msg \in Messages, NEW handler \in Handler, Send(q, msg),
         server' = [server EXCEPT ![q] = handler], UNCHANGED <<client, broken>>,
         server[q].stage \in {"asked", "running"}, handler.action = server[q].action,
         handler.stage \in {"running", "ended"},
         server[q].stage = "running" => handler.outcome = server[q].outcome,
         handler.stage = "running" => handler.outcome \in {"launch", "success", "failure"},
         \A i \in 1..Len(handler.out) :
           handler.out[i] \in {"applied", "destroyed"} => handler.outcome = "success",
         Says(msg, handler.outcome), handler.stage = "ended" => IsVerdict(msg)
  PROVE  IInv'
<1>1. Holds(q) /\ TypeOK
  BY DEF IInv
<1>2. /\ wire' \in [Runs -> Seq(Messages)]
      /\ \A r \in Runs \ {q} : wire'[r] = wire[r]
      /\ socket[q] # "open" => wire' = wire
      /\ socket[q] = "open" => wire'[q] = Append(wire[q], msg)
  BY <1>1, SendTells
<1>3. server'[q] = handler /\ server' \in [Runs -> Handler] /\ \A r \in Runs \ {q} : server'[r] = server[r]
  BY <1>1 DEF TypeOK, Handler
<1>4. ops' = ops /\ wsRefs' = wsRefs /\ socket' = socket /\ broken' = broken
  BY DEF client
<1>5. TypeOK'
  BY <1>1, <1>2, <1>3, <1>4 DEF TypeOK, Handler
<1>6. Elsewhere(q)
  BY <1>2, <1>3, <1>4 DEF Elsewhere
<1>w. wire[q] \in Seq(Messages)
  BY <1>1 DEF TypeOK
<1>7. \A i \in 1..Len(wire[q]) : Says(wire[q][i], handler.outcome)
  <2>1. CASE server[q].stage = "asked"
    BY <1>1, <2>1 DEF Holds, Unanswered
  <2>2. CASE server[q].stage = "running"
    BY <1>1, <2>2 DEF Holds, WireTells
  <2> QED
    BY <2>1, <2>2
<1>8. WireTells(q)'
  <2>1. CASE socket[q] # "open"
    BY <1>2, <1>3, <1>7, <2>1 DEF WireTells
  <2>2. CASE socket[q] = "open"
    BY <1>2, <1>3, <1>7, <1>w, <2>2, Appended DEF WireTells
  <2> QED
    BY <2>1, <2>2
<1>9. ASSUME socket[q] = "open" PROVE wire'[q] # << >> /\ wire'[q][Len(wire'[q])] = msg
  BY <1>2, <1>9, <1>w
<1>10. VerdictIsLast(q)'
  BY <1>3, <1>4, <1>9 DEF VerdictIsLast
<1>11. Unstarted(q)' /\ Unanswered(q)'
  BY <1>1, <1>3, <1>4 DEF Holds, Unstarted, Unanswered
<1>12. Told(q)'
  <2>1. CASE server[q].stage = "asked"
    <3>1. server[q].outcome = "unknown"
      BY <1>1, <2>1 DEF Holds, Unanswered
    <3> QED
      BY <1>1, <1>3, <1>4, <3>1 DEF Holds, Told, StatusOf
  <2>2. CASE server[q].stage = "running"
    BY <1>1, <1>3, <1>4, <2>2 DEF Holds, Told, StatusOf
  <2> QED
    BY <2>1, <2>2
<1>13. Served(q)'
  BY <1>1, <1>3, <1>4, <1>9 DEF Holds, Served, StatusOf
<1> QED
  BY <1>5, <1>6, <1>8, <1>10, <1>11, <1>12, <1>13, OneRun DEF Holds

LEMMA DeclineStep ==
  ASSUME IInv, NEW q \in Runs, server[q].stage = "asked",
         \/ Decline(q, "refused", "error")
         \/ Decline(q, "approval", "approval_required"),
         UNCHANGED <<client, broken>>
  PROVE  IInv'
<1>1. Holds(q) /\ TypeOK
  BY DEF IInv
<1>2. PICK outcome \in {"refused", "approval"}, type \in {"error", "approval_required"} :
        /\ Decline(q, outcome, type)
        /\ outcome = "refused" <=> type = "error"
  OBVIOUS
<1> DEFINE msg == [type |-> type, data |-> "text"]
           handler == [server[q] EXCEPT !.stage = "ended", !.outcome = outcome]
<1>3. server[q] \in Handler
  BY <1>1 DEF TypeOK, Handler
<1>4. msg \in Messages /\ handler \in Handler
  BY <1>2, <1>3 DEF Messages, Handler, Outcomes
<1>5. Send(q, msg) /\ server' = [server EXCEPT ![q] = handler]
  BY <1>2 DEF Decline
<1>6. /\ handler.action = server[q].action /\ handler.stage = "ended"
      /\ handler.outcome = outcome /\ handler.out = server[q].out
  BY <1>3 DEF Handler
<1>7. Says(msg, outcome) /\ IsVerdict(msg)
  BY <1>2 DEF Says, IsVerdict
<1>8. \A i \in 1..Len(server[q].out) : server[q].out[i] \notin {"applied", "destroyed"}
  BY <1>1 DEF Holds, Unanswered, WireTells
<1> HIDE DEF msg, handler
<1> QED
  BY <1>4, <1>5, <1>6, <1>7, <1>8, ServerSends

\* Terraform says that it applied or destroyed only when it did.
LEMMA OutputTells ==
  ASSUME NEW action, NEW outcome \in {"launch", "success", "failure"}, NEW out \in Output(action, outcome)
  PROVE  /\ out \in Seq(Lines)
         /\ \A i \in 1..Len(out) : out[i] \in {"applied", "destroyed"} => outcome = "success"
<1>1. CASE outcome = "launch"
  <2>1. out = <<"text">>
    BY <1>1 DEF Output
  <2> QED
    BY <2>1 DEF Lines
<1>2. CASE outcome = "failure"
  <2>1. out = <<"error">> \/ out = <<"plan", "error">> \/ out = <<"plan", "text">>
    BY <1>2 DEF Output
  <2>2. CASE out = <<"error">>
    BY <2>2 DEF Lines
  <2>3. CASE out = <<"plan", "error">>
    BY <2>3 DEF Lines
  <2>4. CASE out = <<"plan", "text">>
    BY <2>4 DEF Lines
  <2> QED
    BY <2>1, <2>2, <2>3, <2>4
<1>3. CASE outcome = "success"
  <2>1. \/ out = <<"plan">> \/ out = <<"nochanges">> \/ out = <<"plan", "applied">>
        \/ out = <<"nochanges", "applied">> \/ out = <<"plan", "destroyed">>
    BY <1>3 DEF Output
  <2>2. <<"plan">> \in Seq(Lines) /\ <<"nochanges">> \in Seq(Lines)
    BY DEF Lines
  <2>3. <<"plan", "applied">> \in Seq(Lines) /\ <<"nochanges", "applied">> \in Seq(Lines)
    BY DEF Lines
  <2>4. <<"plan", "destroyed">> \in Seq(Lines)
    BY DEF Lines
  <2> QED
    BY <1>3, <2>1, <2>2, <2>3, <2>4
<1> QED
  BY <1>1, <1>2, <1>3

LEMMA BeginStep ==
  ASSUME IInv, NEW q \in Runs, server[q].stage = "asked",
         NEW outcome \in {"launch", "success", "failure"}, Begin(q, outcome), UNCHANGED <<client, broken>>
  PROVE  IInv'
<1>1. Holds(q) /\ TypeOK
  BY DEF IInv
<1>2. PICK out \in Output(server[q].action, outcome) :
        server' = [server EXCEPT ![q].stage = "running", ![q].outcome = outcome, ![q].out = out]
  BY DEF Begin
<1> DEFINE msg == [type |-> "started", data |-> "text"]
           handler == [server[q] EXCEPT !.stage = "running", !.outcome = outcome, !.out = out]
<1>3. server[q] \in Handler
  BY <1>1 DEF TypeOK, Handler
<1>4. out \in Seq(Lines) /\ \A i \in 1..Len(out) : out[i] \in {"applied", "destroyed"} => outcome = "success"
  BY OutputTells
<1>5. msg \in Messages /\ handler \in Handler
  BY <1>3, <1>4 DEF Messages, Handler, Outcomes
<1>6. Send(q, msg) /\ server' = [server EXCEPT ![q] = handler]
  BY <1>2 DEF Begin
<1>7. /\ handler.action = server[q].action /\ handler.stage = "running"
      /\ handler.outcome = outcome /\ handler.out = out
  BY <1>3 DEF Handler
<1>8. Says(msg, outcome)
  BY DEF Says
<1> HIDE DEF msg, handler
<1> QED
  BY <1>4, <1>5, <1>6, <1>7, <1>8, ServerSends

LEMMA PrintStep ==
  ASSUME IInv, NEW q \in Runs, PrintLine(q)
  PROVE  IInv'
<1>1. Holds(q) /\ TypeOK
  BY DEF IInv
<1>2. /\ server[q].stage = "running" /\ server[q].out # << >>
      /\ server' = [server EXCEPT ![q].out = Tail(@)] /\ UNCHANGED <<client, broken>>
      /\ Send(q, [type |-> "log", data |-> Head(server[q].out)])
  BY DEF PrintLine
<1> DEFINE msg == [type |-> "log", data |-> Head(server[q].out)]
           handler == [server[q] EXCEPT !.out = Tail(server[q].out)]
<1>3. server[q] \in Handler /\ server[q].out \in Seq(Lines)
  BY <1>1 DEF TypeOK, Handler
<1>4. /\ Head(server[q].out) = server[q].out[1] /\ 1 \in 1..Len(server[q].out)
      /\ Head(server[q].out) \in Lines /\ Tail(server[q].out) \in Seq(Lines)
      /\ \A i \in 1..Len(Tail(server[q].out)) :
           i + 1 \in 1..Len(server[q].out) /\ Tail(server[q].out)[i] = server[q].out[i + 1]
  BY <1>2, <1>3, Taken
<1>5. msg \in Messages /\ handler \in Handler
  BY <1>3, <1>4 DEF Messages, Handler
<1>6. server' = [server EXCEPT ![q] = handler]
  BY <1>2
<1>7. /\ handler.action = server[q].action /\ handler.stage = "running"
      /\ handler.outcome = server[q].outcome /\ handler.out = Tail(server[q].out)
  BY <1>2, <1>3 DEF Handler
<1>8. Says(msg, server[q].outcome)
  BY <1>1, <1>4 DEF Says, Holds, WireTells
<1>9. \A i \in 1..Len(Tail(server[q].out)) :
        Tail(server[q].out)[i] \in {"applied", "destroyed"} => server[q].outcome = "success"
  BY <1>1, <1>4 DEF Holds, WireTells
<1>10. server[q].outcome \in {"launch", "success", "failure"} /\ Send(q, msg)
  BY <1>1, <1>2 DEF Holds, Unanswered
<1> HIDE DEF msg, handler
<1> QED
  BY <1>2, <1>5, <1>6, <1>7, <1>8, <1>9, <1>10, ServerSends

LEMMA FinishStep ==
  ASSUME IInv, NEW q \in Runs, Finish(q)
  PROVE  IInv'
<1>1. Holds(q) /\ TypeOK
  BY DEF IInv
<1> DEFINE msg == [type |-> "done", data |-> IF server[q].outcome = "success" THEN "success" ELSE "error"]
           handler == [server[q] EXCEPT !.stage = "ended", !.out = << >>]
<1>2. /\ server[q].stage = "running" /\ Send(q, msg) /\ UNCHANGED <<client, broken>>
      /\ server' = [server EXCEPT ![q] = handler]
  BY DEF Finish
<1>3. server[q] \in Handler
  BY <1>1 DEF TypeOK, Handler
<1>4. msg \in Messages /\ handler \in Handler
  <2>1. msg \in Messages
    BY DEF Messages
  <2>2. << >> \in Seq(Lines)
    OBVIOUS
  <2> QED
    BY <1>3, <2>1, <2>2 DEF Handler
<1>5. /\ handler.action = server[q].action /\ handler.stage = "ended"
      /\ handler.outcome = server[q].outcome /\ handler.out = << >>
  BY <1>3 DEF Handler
<1>6. server[q].outcome \in {"launch", "success", "failure"}
  BY <1>1, <1>2 DEF Holds, Unanswered
<1>7. Says(msg, server[q].outcome) /\ IsVerdict(msg)
  BY <1>6 DEF Says, IsVerdict
<1>8. \A i \in 1..Len(<< >>) : FALSE
  OBVIOUS
<1> HIDE DEF msg, handler
<1>9. \A i \in 1..Len(handler.out) :
        handler.out[i] \in {"applied", "destroyed"} => handler.outcome = "success"
  BY <1>5, <1>8
<1> QED
  BY <1>2, <1>4, <1>5, <1>6, <1>7, <1>9, ServerSends

LEMMA ServerStepInv ==
  ASSUME IInv, NEW q \in Runs, ServerStep(q)
  PROVE  IInv'
<1>1. CASE Answer(q)
  BY <1>1, DeclineStep, BeginStep DEF Answer
<1> QED
  BY <1>1, PrintStep, FinishStep DEF ServerStep

-----------------------------------------------------------------------------
(* The theorems                                                            *)

LEMMA StutterStep == IInv /\ UNCHANGED vars => IInv'
<1> SUFFICES ASSUME IInv, UNCHANGED vars PROVE IInv'
  OBVIOUS
<1>1. /\ ops' = ops /\ wsRefs' = wsRefs /\ socket' = socket /\ wire' = wire
      /\ server' = server /\ broken' = broken
  BY DEF vars, client
<1>2. TypeOK'
  BY <1>1 DEF IInv, TypeOK
<1>3. ASSUME NEW r \in Runs PROVE Holds(r)'
  BY <1>1, Untouched DEF IInv
<1> QED
  BY <1>2, <1>3 DEF IInv

LEMMA StepInv == IInv /\ [Next]_vars => IInv'
  BY StutterStep, StartStep, DismissStep, UnmountStep, OpenStep, RefusedStep, MessageStep, CloseStep,
     LostStep, ServerStepInv DEF Next

LEMMA Inductive == Spec => []IInv
  BY InitInv, StepInv, PTL DEF Spec

\* The operations, the sockets and the messages keep their types, whatever the
\* runs, their actions and the connections do (OperationContext.js:10-137).
THEOREM BarsType == Spec => []TypeOK
<1>1. IInv => TypeOK
  BY DEF IInv
<1> QED
  BY <1>1, Inductive, PTL

\* For any number of runs, the colour of a bar and the success the modal tells
\* are what the server's run came to, over connections that break at any
\* message (OperationContext.js:62-101, PlanModal.js:83-103).
THEOREM BarsTellTheEnd == Spec => []ToldAsItEnded
<1>1. IInv => ToldAsItEnded
  <2> SUFFICES ASSUME IInv PROVE ToldAsItEnded
    OBVIOUS
  <2>1. ASSUME NEW r \in Runs PROVE Told(r)
    BY DEF IInv, Holds
  <2>2. BarTellsVerdict
    BY <2>1 DEF BarTellsVerdict, Told
  <2>3. SuccessIsEarned
    <3> SUFFICES ASSUME NEW r \in Runs, ops[r] # NoOp, CompletionStatus(ops[r].logs) = "success"
                 PROVE  server[r].outcome = "success"
      BY DEF SuccessIsEarned
    <3>1. "applied" \in ops[r].logs \/ "destroyed" \in ops[r].logs
      BY DEF CompletionStatus
    <3> QED
      BY <2>1, <3>1 DEF Told
  <2> QED
    BY <2>2, <2>3 DEF ToldAsItEnded
<1> QED
  BY <1>1, Inductive, PTL

\* A bar that says "running" has a connection that is being made, a run that has
\* not ended or a message to come, unless its socket was closed in silence
\* (OperationContext.js:99).
THEOREM RunningBarsAreServed == Spec => []RunningBarIsServed
<1>1. IInv => RunningBarIsServed
  BY DEF IInv, Holds, Served, RunningBarIsServed
<1> QED
  BY <1>1, Inductive, PTL

=============================================================================
