----------------------------- MODULE RunStream ------------------------------
(***************************************************************************)
(* The container of one WebSocket run and the way of its output to the     *)
(* record of the run: the docker branch of wsRunHandler (handler_ws.go)    *)
(* with its two pipe readers, or RunKubeJobStreaming and                   *)
(* waitForJobAndGetLogs (k8s_runner.go), which read the log of the pod;    *)
(* then the channel of lines and the goroutine that forwards them to the   *)
(* client.  Operations takes the whole of it as the step ContainerEnds.    *)
(*                                                                         *)
(* Line n of stream s is <<s, n>>.  A scanner reads many lines at once and *)
(* sends them one by one: the lines a stream has in its pipe, or in the    *)
(* log of the pod, are those up to written that are not up to read, those  *)
(* in the scanner the ones up to read that are not up to sent.             *)
(***************************************************************************)
EXTENDS Naturals, Sequences, FiniteSets

CONSTANTS
  Modes,         \* getExecutionMode(): "docker", "kubernetes"
  MaxLines,      \* bound: lines a container writes to a stream
  PipeSize,      \* lines a pipe holds (64 KB)
  ChannelSize,   \* lines logCh holds (100)
  PodPolls,      \* tries to find the pod (120)
  VerdictPolls,  \* tries to read the verdict (30)
  LongLines,     \* a line may be longer than the scanner's buffer (1 MB)
  ClientStalls,  \* the client may stop reading and keep the connection
  MaxFaults      \* bound: kinds of call to the cluster that fail

ASSUME RunStreamAssumption ==
  /\ Modes \subseteq {"docker", "kubernetes"}
  /\ MaxLines \in Nat /\ PodPolls \in Nat /\ VerdictPolls \in Nat /\ MaxFaults \in Nat
  /\ PipeSize \in Nat \ {0} /\ ChannelSize \in Nat \ {0}
  /\ LongLines \in BOOLEAN /\ ClientStalls \in BOOLEAN

VARIABLES
  mode,
  pc,         \* where the handler is
  container,  \* the container, or the pod of the job
  job,        \* the status of the job as the cluster shows it
  objects,    \* the objects of the run in the cluster
  polls, podSeen,
  total,      \* the lines the container is going to write, by stream
  long,       \* the number of the line that is too long, or 0
  written, read, sent,
  channel,    \* logCh
  closed,     \* close(logCh)
  forwarder, allLogs, client, status, faults

lanes   == <<total, long>>
cluster == <<container, job, objects>>
vars == <<mode, pc, cluster, polls, podSeen, lanes, written, read, sent, channel, closed,
          forwarder, allLogs, client, status, faults>>

Streams == {"stdout", "stderr"}
Ended   == {"succeeded", "failed"}

\* A pod has one log.
Lanes == IF mode = "docker" THEN Streams ELSE {"stdout"}

Calls == {"create", "list", "open", "follow", "get", "delete"}

LinesOK ==
  /\ total \in [Streams -> 0 .. MaxLines] /\ long \in [Streams -> 0 .. MaxLines]
  /\ written \in [Streams -> 0 .. MaxLines]
  /\ read \in [Streams -> 0 .. MaxLines] /\ sent \in [Streams -> 0 .. MaxLines]
  /\ channel \in Seq(Streams \X (1 .. MaxLines)) /\ Len(channel) <= ChannelSize
  /\ allLogs \in Seq(Streams \X (1 .. MaxLines))

FlagsOK == podSeen \in BOOLEAN /\ closed \in BOOLEAN

ControlOK ==
  /\ mode \in Modes
  /\ pc \in {"start", "job", "pod", "open", "follow", "verdict", "cleanup",
             "wait", "close", "drain", "settled", "panicked"}
  /\ container \in {"none", "created", "pending", "running", "killed"} \cup Ended
  /\ job \in {"open"} \cup Ended
  /\ objects \subseteq {"configmap", "job"}
  /\ polls \in 0 .. (PodPolls + VerdictPolls)
  /\ forwarder \in {"receive", "write", "ended"}
  /\ client \in {"reading", "stalled"}
  /\ status \in {"none", "success", "error"}
  /\ faults \subseteq Calls

TypeOK == LinesOK /\ FlagsOK /\ ControlOK

Init ==
  /\ mode \in Modes
  /\ pc = "start"
  /\ container = "none" /\ job = "open" /\ objects = {}
  /\ polls = 0 /\ podSeen = FALSE
  /\ total \in [Streams -> 0 .. MaxLines]
  /\ long \in [Streams -> 0 .. (IF LongLines THEN MaxLines ELSE 0)]
  /\ \A s \in Streams : long[s] <= total[s] /\ (s \notin Lanes => total[s] = 0)
  /\ written = [s \in Streams |-> 0]
  /\ read = written /\ sent = written
  /\ channel = <<>> /\ closed = FALSE
  /\ forwarder = "receive" /\ allLogs = <<>> /\ client = "reading"
  /\ status = "none" /\ faults = {}

-----------------------------------------------------------------------------

\* A call to the cluster that fails, while the bound allows it.
Fails(call) == Cardinality(faults \cup {call}) <= MaxFaults /\ faults' = faults \cup {call}

\* The scanner has met a line it has no room for, and stops for good.
Stuck(s) == long[s] # 0 /\ read[s] = long[s] - 1

Scanned(s) == sent[s] = read[s]

-----------------------------------------------------------------------------
(* The container                                                           *)

\* A full pipe blocks it; the log of a pod is a file.
WriteLine(s) ==
  /\ container = "running"
  /\ written[s] < total[s]
  /\ mode = "docker" => written[s] - read[s] < PipeSize
  /\ written' = [written EXCEPT ![s] = @ + 1]
  /\ UNCHANGED <<mode, pc, cluster, polls, podSeen, lanes, read, sent, channel, closed,
                 forwarder, allLogs, client, status, faults>>

Exit ==
  /\ container = "running"
  /\ written = total
  /\ container' \in Ended
  /\ UNCHANGED <<mode, pc, job, objects, polls, podSeen, lanes, written, read, sent, channel,
                 closed, forwarder, allLogs, client, status, faults>>

\* The cluster makes the pod of the job, starts it, and shows how it ended.
ClusterStep ==
  /\ "job" \in objects
  /\ \/ container = "created" /\ container' = "pending" /\ UNCHANGED job
     \/ container = "pending" /\ container' = "running" /\ UNCHANGED job
     \/ container \in Ended /\ job = "open" /\ job' = container /\ UNCHANGED container
  /\ UNCHANGED <<mode, pc, objects, polls, podSeen, lanes, written, read, sent, channel,
                 closed, forwarder, allLogs, client, status, faults>>

-----------------------------------------------------------------------------
(* Lines: scanners, channel, forwarder                                     *)

\* A read takes what is there, at most up to a line that is too long.
ReadLines(s) ==
  /\ pc \in {"wait", "follow"}
  /\ Scanned(s)
  /\ \E n \in read[s] + 1 .. written[s] :
       /\ long[s] # 0 => n < long[s]
       /\ read' = [read EXCEPT ![s] = n]
  /\ UNCHANGED <<mode, pc, cluster, polls, podSeen, lanes, written, sent, channel, closed,
                 forwarder, allLogs, client, status, faults>>

\* Seeded: the line that is sent is the one the scanner has read last.
SendLast(s) ==
  /\ ~Scanned(s) /\ ~closed /\ pc # "panicked"
  /\ Len(channel) < ChannelSize
  /\ channel' = Append(channel, <<s, read[s]>>)
  /\ sent' = [sent EXCEPT ![s] = @ + 1]
  /\ UNCHANGED <<mode, pc, cluster, polls, podSeen, lanes, written, read, closed, forwarder,
                 allLogs, client, status, faults>>

\* logCh <- line.
SendLine(s) ==
  /\ ~Scanned(s) /\ ~closed /\ pc # "panicked"
  /\ Len(channel) < ChannelSize
  /\ channel' = Append(channel, <<s, sent[s] + 1>>)
  /\ sent' = [sent EXCEPT ![s] = @ + 1]
  /\ UNCHANGED <<mode, pc, cluster, polls, podSeen, lanes, written, read, closed, forwarder,
                 allLogs, client, status, faults>>

\* A send on the closed channel panics in a goroutine of its own: the process
\* ends with every run and every request it serves.
SendOnClosed(s) ==
  /\ ~Scanned(s) /\ closed /\ pc # "panicked"
  /\ pc' = "panicked"
  /\ UNCHANGED <<mode, cluster, polls, podSeen, lanes, written, read, sent, channel, closed,
                 forwarder, allLogs, client, status, faults>>

\* for line := range logCh: the line is recorded, then written to the client.
Receive ==
  /\ forwarder = "receive" /\ pc # "panicked"
  /\ channel # <<>>
  /\ allLogs' = Append(allLogs, Head(channel))
  /\ channel' = Tail(channel)
  /\ forwarder' = "write"
  /\ UNCHANGED <<mode, pc, cluster, polls, podSeen, lanes, written, read, sent, closed,
                 client, status, faults>>

\* conn.WriteJSON has no deadline; its error is ignored.
WriteClient ==
  /\ forwarder = "write" /\ pc # "panicked"
  /\ client = "reading"
  /\ forwarder' = "receive"
  /\ UNCHANGED <<mode, pc, cluster, polls, podSeen, lanes, written, read, sent, channel,
                 closed, allLogs, client, status, faults>>

\* The range over a closed and empty channel ends: close(done).
ForwarderEnds ==
  /\ forwarder = "receive" /\ pc # "panicked"
  /\ closed /\ channel = <<>>
  /\ forwarder' = "ended"
  /\ UNCHANGED <<mode, pc, cluster, polls, podSeen, lanes, written, read, sent, channel,
                 closed, allLogs, client, status, faults>>

Stall ==
  /\ ClientStalls /\ client = "reading"
  /\ client' = "stalled"
  /\ UNCHANGED <<mode, pc, cluster, polls, podSeen, lanes, written, read, sent, channel,
                 closed, forwarder, allLogs, status, faults>>

-----------------------------------------------------------------------------
(* The handler: docker                                                     *)

Run ==
  /\ mode = "docker" /\ pc = "start"
  /\ container' = "running"
  /\ pc' = "wait"
  /\ UNCHANGED <<mode, job, objects, polls, podSeen, lanes, written, read, sent, channel,
                 closed, forwarder, allLogs, client, status, faults>>

\* cmd.Wait returns when the container has ended, and closes the pipes: what
\* is still in them is lost.
Wait ==
  /\ pc = "wait" /\ container \in Ended
  /\ status' = IF container = "succeeded" THEN "success" ELSE "error"
  /\ pc' = "close"
  /\ UNCHANGED <<mode, cluster, polls, podSeen, lanes, written, read, sent, channel, closed,
                 forwarder, allLogs, client, faults>>

\* Seeded: the channel stays open.
LeaveOpen ==
  /\ pc = "close"
  /\ pc' = "drain"
  /\ UNCHANGED <<mode, cluster, polls, podSeen, lanes, written, read, sent, channel, closed,
                 forwarder, allLogs, client, status, faults>>

CloseChannel ==
  /\ pc = "close"
  /\ closed' = TRUE
  /\ pc' = "drain"
  /\ UNCHANGED <<mode, cluster, polls, podSeen, lanes, written, read, sent, channel,
                 forwarder, allLogs, client, status, faults>>

\* <-done: allLogs is what goes into the record.
Settle ==
  /\ pc = "drain" /\ forwarder = "ended"
  /\ pc' = "settled"
  /\ UNCHANGED <<mode, cluster, polls, podSeen, lanes, written, read, sent, channel, closed,
                 forwarder, allLogs, client, status, faults>>

-----------------------------------------------------------------------------
(* The handler: kubernetes                                                 *)

Goto(stage) == pc' = stage

\* waitForJobAndGetLogs returns, or RunKubeJobStreaming before it.
Returns(verdict) == status' = verdict /\ Goto("cleanup")

CreateConfigMap ==
  /\ mode = "kubernetes" /\ pc = "start"
  /\ \/ /\ objects' = {"configmap"} /\ Goto("job")
        /\ UNCHANGED <<status, faults>>
     \/ /\ Fails("create") /\ status' = "error" /\ Goto("close")
        /\ UNCHANGED objects
  /\ UNCHANGED <<mode, container, job, polls, podSeen, lanes, written, read, sent, channel,
                 closed, forwarder, allLogs, client>>

CreateJob ==
  /\ pc = "job"
  /\ \/ /\ objects' = objects \cup {"job"} /\ container' = "created" /\ Goto("pod")
        /\ UNCHANGED <<status, faults>>
     \/ /\ Fails("create") /\ Returns("error")
        /\ UNCHANGED <<objects, container>>
  /\ UNCHANGED <<mode, job, polls, podSeen, lanes, written, read, sent, channel, closed,
                 forwarder, allLogs, client>>

\* One second of the wait for the pod; a list that fails counts as empty.
PollPod ==
  /\ pc = "pod" /\ polls < PodPolls
  /\ polls' = polls + 1
  /\ \/ container = "created" /\ UNCHANGED <<podSeen, faults, pc>>
     \/ Fails("list") /\ UNCHANGED <<podSeen, pc>>
     \/ container = "pending" /\ podSeen' = TRUE /\ UNCHANGED <<faults, pc>>
     \/ container \in {"running"} \cup Ended /\ podSeen' = TRUE /\ Goto("open")
          /\ UNCHANGED faults
  /\ UNCHANGED <<mode, cluster, lanes, written, read, sent, channel, closed, forwarder,
                 allLogs, client, status>>

\* The tries are used up: a pod that was seen is tried all the same.
GiveUpPod ==
  /\ pc = "pod" /\ polls = PodPolls
  /\ IF podSeen THEN Goto("open") /\ UNCHANGED status ELSE Returns("error")
  /\ UNCHANGED <<mode, cluster, polls, podSeen, lanes, written, read, sent, channel, closed,
                 forwarder, allLogs, client, faults>>

\* A container that waits to start has no log yet.
OpenLog ==
  /\ pc = "open"
  /\ \/ /\ container \in {"running"} \cup Ended
        /\ Goto("follow") /\ UNCHANGED <<status, faults>>
     \/ container = "pending" /\ Returns("error") /\ UNCHANGED faults
     \/ Fails("open") /\ Returns("error")
  /\ UNCHANGED <<mode, cluster, polls, podSeen, lanes, written, read, sent, channel, closed,
                 forwarder, allLogs, client>>

\* Seeded: only what is there when the log is opened is read.
ReadOnce ==
  /\ pc = "follow" /\ Scanned("stdout")
  /\ read["stdout"] = written["stdout"] \/ Stuck("stdout")
  /\ Goto("verdict") /\ polls' = 0
  /\ UNCHANGED <<mode, cluster, podSeen, lanes, written, read, sent, channel, closed,
                 forwarder, allLogs, client, status, faults>>

\* The scan ends at the end of the log, at a line that is too long, or when
\* the stream breaks.
LogEnds ==
  /\ pc = "follow" /\ Scanned("stdout")
  /\ \/ container \in Ended /\ read["stdout"] = written["stdout"] /\ UNCHANGED faults
     \/ Stuck("stdout") /\ written["stdout"] > read["stdout"] /\ UNCHANGED faults
     \/ Fails("follow")
  /\ Goto("verdict") /\ polls' = 0
  /\ UNCHANGED <<mode, cluster, podSeen, lanes, written, read, sent, channel, closed,
                 forwarder, allLogs, client, status>>

\* Seeded: a job that has finished has succeeded.
PollFinished ==
  /\ pc = "verdict" /\ polls < VerdictPolls
  /\ \/ job # "open" /\ Returns("success") /\ UNCHANGED <<polls, faults>>
     \/ job = "open" /\ polls' = polls + 1 /\ UNCHANGED <<pc, status, faults>>
     \/ Fails("get") /\ Returns("success") /\ UNCHANGED polls
  /\ UNCHANGED <<mode, cluster, podSeen, lanes, written, read, sent, channel, closed,
                 forwarder, allLogs, client>>

\* Seeded: the wait for the verdict has no limit.
PollForever ==
  /\ pc = "verdict"
  /\ \/ job = "succeeded" /\ Returns("success") /\ UNCHANGED <<polls, faults>>
     \/ job = "failed" /\ Returns("error") /\ UNCHANGED <<polls, faults>>
     \/ job = "open" /\ polls' = polls + 1 /\ UNCHANGED <<pc, status, faults>>
  /\ UNCHANGED <<mode, cluster, podSeen, lanes, written, read, sent, channel, closed,
                 forwarder, allLogs, client>>

\* A job that cannot be read has succeeded.
PollVerdict ==
  /\ pc = "verdict" /\ polls < VerdictPolls
  /\ \/ job = "succeeded" /\ Returns("success") /\ UNCHANGED <<polls, faults>>
     \/ job = "failed" /\ Returns("error") /\ UNCHANGED <<polls, faults>>
     \/ job = "open" /\ polls' = polls + 1 /\ UNCHANGED <<pc, status, faults>>
     \/ Fails("get") /\ Returns("success") /\ UNCHANGED polls
  /\ UNCHANGED <<mode, cluster, podSeen, lanes, written, read, sent, channel, closed,
                 forwarder, allLogs, client>>

\* So has one that shows no verdict in time.
GiveUpVerdict ==
  /\ pc = "verdict" /\ polls = VerdictPolls
  /\ Returns("success")
  /\ UNCHANGED <<mode, cluster, polls, podSeen, lanes, written, read, sent, channel, closed,
                 forwarder, allLogs, client, faults>>

\* The deferred deletes, whose errors are ignored.  A job takes its pod along,
\* whether it has ended or not.
Cleanup ==
  /\ pc = "cleanup"
  /\ \/ objects' = {} /\ UNCHANGED faults
     \/ Fails("delete") /\ objects' \in (SUBSET objects) \ {{}}
  /\ container' = IF /\ "job" \notin objects'
                     /\ container \in {"created", "pending", "running"}
                    THEN "killed" ELSE container
  /\ Goto("close")
  /\ UNCHANGED <<mode, job, polls, podSeen, lanes, written, read, sent, channel, closed,
                 forwarder, allLogs, client, status>>

-----------------------------------------------------------------------------

Container == Exit \/ ClusterStep \/ \E s \in Streams : WriteLine(s)

Reader(s) == ReadLines(s) \/ SendLine(s) \/ SendOnClosed(s)

Forwarder == Receive \/ WriteClient \/ ForwarderEnds

Handler ==
  \/ Run \/ Wait \/ CloseChannel \/ Settle
  \/ CreateConfigMap \/ CreateJob \/ PollPod \/ GiveUpPod \/ OpenLog \/ LogEnds
  \/ PollVerdict \/ GiveUpVerdict \/ Cleanup

Next ==
  /\ pc # "panicked"
  /\ Container \/ Forwarder \/ Handler \/ Stall \/ \E s \in Streams : Reader(s)

Spec == Init /\ [][Next]_vars

\* Goroutines are scheduled, and a container that is not blocked goes on.
Fairness ==
  /\ WF_vars(Container) /\ WF_vars(Forwarder) /\ WF_vars(Handler)
  /\ \A s \in Streams : WF_vars(Reader(s))

FairSpec == Spec /\ Fairness

-----------------------------------------------------------------------------
(* Properties                                                              *)

\* Where the record has the lines of a stream.
LinesOf(s) == {i \in DOMAIN allLogs : allLogs[i][1] = s}
NoLongLine == \A s \in Streams : long[s] = 0
LogBroken  == "follow" \in faults

\* Lines are never lost in the middle, repeated or swapped: the line that the
\* record has as the n-th of a stream is the n-th that the container wrote to it.
RecordIsPrefix ==
  \A s \in Streams : \A i \in LinesOf(s) :
    allLogs[i][2] = Cardinality({j \in LinesOf(s) : j <= i})

\* A job that is reported as a success has all its lines in the record, unless
\* the log could not be read to its end.
JobRecordIsWhole ==
  pc = "settled" /\ mode = "kubernetes" /\ status = "success" =>
    \/ \A s \in Streams : Cardinality(LinesOf(s)) = total[s]
    \/ ~NoLongLine \/ LogBroken

\* The backend does not delete a job that is at work and call it a success,
\* unless the log could not be read to its end.
JobIsNotCutShort ==
  container = "killed" /\ status = "success" => ~NoLongLine \/ LogBroken

\* However a run of a job ends, it leaves nothing in the cluster, unless a
\* delete has failed.
NothingIsLeft ==
  pc \in {"close", "drain", "settled"} /\ "delete" \notin faults => objects = {}

\* The log of a pod is read by the handler itself, so the channel is closed
\* after the last send, and the backend never panics on it.
JobNeverPanics == mode = "kubernetes" => pc # "panicked"

\* The record of a run tells the truth about what its container wrote
\* (handler_ws.go:242-269, k8s_runner.go:342-368).
RecordIsTrue == RecordIsPrefix /\ JobRecordIsWhole

\* A job ends in order: not cut short and called a success, with nothing left
\* in the cluster, and without a send on the closed channel
\* (k8s_runner.go:197-382, handler_ws.go:193).
JobEndsInOrder == JobIsNotCutShort /\ NothingIsLeft /\ JobNeverPanics

\* A failure is reported as one, unless the verdict could not be read.
FailureIsReported ==
  pc = "settled" /\ container = "failed" =>
    status = "error" \/ "get" \in faults \/ polls = VerdictPolls

\* A settled record does not change any more.
SettledIsFinal == [][pc = "settled" => UNCHANGED allLogs]_allLogs

\* Every run comes to an end while its client reads and, under docker, no
\* line is too long for the scanner.
RunEnds ==
  <>(\/ pc \in {"settled", "panicked"}
     \/ client = "stalled"
     \/ mode = "docker" /\ ~NoLongLine)

\* What a docker run has written reaches its record.
OutputIsRecorded ==
  pc \in {"settled", "panicked"} /\ mode = "docker" /\ NoLongLine =>
    \A s \in Streams : Cardinality(LinesOf(s)) = total[s]
=============================================================================
