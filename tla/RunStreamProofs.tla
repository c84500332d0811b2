-------------------------- MODULE RunStreamProofs ---------------------------
(***************************************************************************)
(* Proofs about RunStream, for every number of lines, size of pipe and     *)
(* channel, limit of polls and bound on failing calls, in both execution   *)
(* modes.                                                                  *)
(***************************************************************************)
EXTENDS RunStream, FiniteSetTheorems, TLAPS

\* A line of the channel is taken from its front and joins the record.
LEMMA TakeLine ==
  ASSUME NEW S, NEW q \in Seq(S), q # <<>>
  PROVE  Head(q) \in S /\ Tail(q) \in Seq(S) /\ Len(Tail(q)) = Len(q) - 1
  OBVIOUS

LEMMA AddLine ==
  ASSUME NEW S, NEW q \in Seq(S), NEW line \in S
  PROVE  Append(q, line) \in Seq(S) /\ Len(Append(q, line)) = Len(q) + 1
  OBVIOUS

-----------------------------------------------------------------------------
(* Types                                                                   *)

\* A scanner has sent no more than it has read, and read no more than there
\* is: SendLine is well typed because of it.
InOrder ==
  \A s \in Streams : sent[s] <= read[s] /\ read[s] <= written[s] /\ written[s] <= total[s]

LinesInv == LinesOK /\ InOrder

lines == <<lanes, written, read, sent, channel, allLogs>>

LEMMA InitLines == Init => LinesInv
<1> SUFFICES ASSUME Init PROVE LinesInv
  OBVIOUS
<1>1. total \in [Streams -> 0 .. MaxLines] /\ long \in [Streams -> 0 .. MaxLines]
  BY RunStreamAssumption DEF Init
<1>2. written \in [Streams -> 0 .. MaxLines] /\ \A s \in Streams : written[s] = 0
  BY RunStreamAssumption DEF Init
<1>3. \A s \in Streams : total[s] \in 0 .. MaxLines
  BY <1>1
<1>4. channel \in Seq(Streams \X (1 .. MaxLines)) /\ Len(channel) <= ChannelSize
  BY RunStreamAssumption DEF Init
<1>5. allLogs \in Seq(Streams \X (1 .. MaxLines))
  BY DEF Init
<1>6. read = written /\ sent = written
  BY DEF Init
<1>7. \A s \in Streams :
        sent[s] <= read[s] /\ read[s] <= written[s] /\ written[s] <= total[s]
  BY <1>2, <1>3, <1>6, RunStreamAssumption
<1>8. QED
  BY <1>1, <1>2, <1>4, <1>5, <1>6, <1>7 DEF LinesInv, LinesOK, InOrder

LEMMA Counted ==
  ASSUME LinesInv, NEW s \in Streams
  PROVE  /\ sent[s] \in Nat /\ read[s] \in Nat /\ written[s] \in Nat /\ total[s] \in Nat
         /\ sent[s] <= read[s] /\ read[s] <= written[s] /\ written[s] <= total[s]
         /\ total[s] <= MaxLines
<1>1. sent[s] \in 0 .. MaxLines /\ read[s] \in 0 .. MaxLines
  BY DEF LinesInv, LinesOK
<1>2. written[s] \in 0 .. MaxLines /\ total[s] \in 0 .. MaxLines
  BY DEF LinesInv, LinesOK
<1>3. sent[s] <= read[s] /\ read[s] <= written[s] /\ written[s] <= total[s]
  BY DEF LinesInv, InOrder
<1>4. QED
  BY <1>1, <1>2, <1>3, RunStreamAssumption

\* The container writes a line, its scanner reads some, one is sent, and one
\* is received: no other step moves a line.
LEMMA LinesStep ==
  ASSUME LinesInv, [Next]_vars
  PROVE  LinesInv'
<1> DEFINE Line == Streams \X (1 .. MaxLines)
<1>1. ASSUME NEW s \in Streams, WriteLine(s) PROVE LinesInv'
  <2>1. written[s] + 1 \in 0 .. MaxLines /\ written[s] + 1 <= total[s]
    BY <1>1, RunStreamAssumption DEF LinesInv, LinesOK, InOrder, WriteLine
  <2>2. written' = [written EXCEPT ![s] = written[s] + 1]
    BY <1>1 DEF WriteLine
  <2>3. UNCHANGED <<total, long, read, sent, channel, allLogs>>
    BY <1>1 DEF WriteLine, lanes
  <2>4. QED
    BY <2>1, <2>2, <2>3, RunStreamAssumption DEF LinesInv, LinesOK, InOrder
<1>2. ASSUME NEW s \in Streams, ReadLines(s) PROVE LinesInv'
  <2>1. PICK n \in read[s] + 1 .. written[s] : read' = [read EXCEPT ![s] = n]
    BY <1>2 DEF ReadLines
  <2>2. n \in 0 .. MaxLines /\ n <= written[s] /\ sent[s] <= n
    BY <2>1, RunStreamAssumption DEF LinesInv, LinesOK, InOrder
  <2>3. UNCHANGED <<total, long, written, sent, channel, allLogs>>
    BY <1>2 DEF ReadLines, lanes
  <2>4. QED
    BY <2>1, <2>2, <2>3, RunStreamAssumption DEF LinesInv, LinesOK, InOrder
<1>3. ASSUME NEW s \in Streams, SendLine(s) PROVE LinesInv'
  <2>1. sent[s] # read[s] /\ Len(channel) < ChannelSize
    BY <1>3 DEF SendLine, Scanned
  <2>2. sent[s] + 1 \in 1 .. MaxLines /\ sent[s] + 1 <= read[s]
    BY <2>1, Counted, RunStreamAssumption
  <2>3. channel' = Append(channel, <<s, sent[s] + 1>>)
    BY <1>3 DEF SendLine
  <2>4. channel' \in Seq(Line) /\ Len(channel') = Len(channel) + 1
    BY <2>2, <2>3, AddLine DEF LinesInv, LinesOK
  <2>5. Len(channel') <= ChannelSize
    <3>1. Len(channel) \in Nat
      BY DEF LinesInv, LinesOK
    <3>2. QED
      BY <2>1, <2>4, <3>1, RunStreamAssumption
  <2>6. sent' = [sent EXCEPT ![s] = sent[s] + 1] /\ UNCHANGED <<total, long, written, read, allLogs>>
    BY <1>3 DEF SendLine, lanes
  <2>7. sent \in [Streams -> 0 .. MaxLines] /\ InOrder
    BY DEF LinesInv, LinesOK
  <2>8. sent' \in [Streams -> 0 .. MaxLines] /\ InOrder'
    BY <2>2, <2>6, <2>7, RunStreamAssumption DEF InOrder
  <2>9. QED
    BY <2>4, <2>5, <2>6, <2>8 DEF LinesInv, LinesOK
<1>4. CASE Receive
  <2>1. Head(channel) \in Line /\ channel' \in Seq(Line) /\ Len(channel') = Len(channel) - 1
    BY <1>4, TakeLine DEF LinesInv, LinesOK, InOrder, Receive
  <2>2. Len(channel') <= ChannelSize
    BY <2>1, RunStreamAssumption DEF LinesInv, LinesOK, InOrder
  <2>3. allLogs' \in Seq(Line)
    BY <1>4, <2>1, AddLine DEF LinesInv, LinesOK, InOrder, Receive
  <2>4. UNCHANGED <<total, long, written, read, sent>>
    BY <1>4 DEF Receive, lanes
  <2>5. QED
    BY <2>1, <2>2, <2>3, <2>4 DEF LinesInv, LinesOK, InOrder
<1>5. CASE UNCHANGED lines
  BY <1>5 DEF LinesInv, LinesOK, InOrder, lines, lanes
<1>6. ASSUME Exit \/ ClusterStep \/ Stall \/ WriteClient \/ ForwarderEnds
      PROVE  UNCHANGED lines
  BY <1>6 DEF lines, Exit, ClusterStep, Stall, WriteClient, ForwarderEnds
<1>7. ASSUME Handler PROVE UNCHANGED lines
  BY <1>7 DEF lines, Handler, Run, Wait, CloseChannel, Settle, CreateConfigMap, CreateJob,
     PollPod, GiveUpPod, OpenLog, LogEnds, PollVerdict, GiveUpVerdict, Cleanup
<1>8. ASSUME NEW s \in Streams, SendOnClosed(s) PROVE UNCHANGED lines
  BY <1>8 DEF lines, SendOnClosed
<1>9. UNCHANGED vars => UNCHANGED lines
  BY DEF vars, lines
<1>10. QED
  BY <1>1, <1>2, <1>3, <1>4, <1>5, <1>6, <1>7, <1>8, <1>9
     DEF Next, Container, Forwarder, Reader

LEMMA ControlStep ==
  ASSUME ControlOK, [Next]_vars
  PROVE  ControlOK'
<1> USE DEF ControlOK
<1>1. ASSUME NEW s \in Streams, WriteLine(s) \/ Reader(s) PROVE ControlOK'
  BY <1>1 DEF WriteLine, Reader, ReadLines, SendLine, SendOnClosed, cluster
<1>2. CASE Exit
  BY <1>2 DEF Exit
<1>3. CASE ClusterStep
  BY <1>3 DEF ClusterStep, Ended
<1>4. CASE Stall
  BY <1>4 DEF Stall, cluster
<1>5. CASE Forwarder
  BY <1>5 DEF Forwarder, Receive, WriteClient, ForwarderEnds, cluster
<1>6. CASE Run
  BY <1>6 DEF Run
<1>7. CASE Wait
  BY <1>7 DEF Wait, cluster
<1>8. CASE CloseChannel \/ Settle
  BY <1>8 DEF CloseChannel, Settle, cluster
<1>9. CASE CreateConfigMap
  BY <1>9 DEF CreateConfigMap, Fails, Calls, Goto
<1>10. CASE CreateJob
  BY <1>10 DEF CreateJob, Fails, Calls, Goto, Returns
<1>11. CASE PollPod
  <2>1. polls' \in 0 .. (PodPolls + VerdictPolls)
    BY <1>11, RunStreamAssumption DEF PollPod
  <2>2. QED
    BY <1>11, <2>1 DEF PollPod, Fails, Calls, Goto, cluster
<1>12. CASE GiveUpPod \/ GiveUpVerdict
  BY <1>12 DEF GiveUpPod, GiveUpVerdict, Goto, Returns, cluster
<1>13. CASE OpenLog
  BY <1>13 DEF OpenLog, Fails, Calls, Goto, Returns, cluster
<1>14. CASE LogEnds
  <2>1. polls' \in 0 .. (PodPolls + VerdictPolls)
    BY <1>14, RunStreamAssumption DEF LogEnds
  <2>2. QED
    BY <1>14, <2>1 DEF LogEnds, Fails, Calls, Goto, cluster
<1>15. CASE PollVerdict
  <2>1. polls' \in 0 .. (PodPolls + VerdictPolls)
    BY <1>15, RunStreamAssumption DEF PollVerdict
  <2>2. QED
    BY <1>15, <2>1 DEF PollVerdict, Fails, Calls, Goto, Returns, cluster
<1>16. CASE Cleanup
  BY <1>16 DEF Cleanup, Fails, Calls, Goto
<1>17. CASE UNCHANGED vars
  BY <1>17 DEF vars, cluster
<1>18. QED
  BY <1>1, <1>2, <1>3, <1>4, <1>5, <1>6, <1>7, <1>8, <1>9, <1>10, <1>11, <1>12, <1>13, <1>14,
     <1>15, <1>16, <1>17 DEF Next, Container, Handler

LEMMA FlagsStep == FlagsOK /\ [Next]_vars => FlagsOK'
<1> SUFFICES ASSUME FlagsOK, [Next]_vars PROVE FlagsOK'
  OBVIOUS
<1>1. CASE PollPod
  BY <1>1 DEF FlagsOK, PollPod
<1>2. CASE CloseChannel
  BY <1>2 DEF FlagsOK, CloseChannel
<1>3. CASE Container \/ Stall \/ Forwarder \/ \E s \in Streams : Reader(s)
  BY <1>3 DEF FlagsOK, Container, Exit, ClusterStep, WriteLine, Stall, Forwarder, Receive,
     WriteClient, ForwarderEnds, Reader, ReadLines, SendLine, SendOnClosed
<1>4. CASE Handler
  BY <1>1, <1>2, <1>4 DEF FlagsOK, Handler, Run, Wait, Settle, CreateConfigMap, CreateJob,
     GiveUpPod, OpenLog, LogEnds, PollVerdict, GiveUpVerdict, Cleanup
<1>5. CASE UNCHANGED vars
  BY <1>5 DEF FlagsOK, vars
<1>6. QED
  BY <1>3, <1>4, <1>5 DEF Next

TypeInv == LinesInv /\ FlagsOK /\ ControlOK

LEMMA TypeInvariant == Spec => []TypeInv
<1>1. ASSUME Init PROVE ControlOK /\ FlagsOK
  <2>1. polls \in 0 .. (PodPolls + VerdictPolls)
    BY <1>1, RunStreamAssumption DEF Init
  <2>2. QED
    BY <1>1, <2>1 DEF Init, ControlOK, FlagsOK
<1>2. Init => TypeInv
  BY <1>1, InitLines DEF TypeInv
<1>3. TypeInv /\ [Next]_vars => TypeInv'
  BY LinesStep, FlagsStep, ControlStep DEF TypeInv
<1>4. QED
  BY <1>2, <1>3, PTL DEF Spec

\* Every reachable state is well typed: no line that a scanner has not read is
\* sent, and the channel never holds more than its size.
THEOREM StreamType == Spec => []TypeOK
<1>1. TypeInv => TypeOK
  BY DEF TypeInv, LinesInv, TypeOK
<1>2. QED
  BY <1>1, TypeInvariant, PTL

-----------------------------------------------------------------------------
(* What a run leaves in the cluster, and what it reports                   *)

\* Where the handler has nothing in the cluster.
Outside == {"start", "wait", "close", "drain", "settled"}

Emptied == pc \in Outside /\ "delete" \notin faults => objects = {}

\* The status of the job is the end of its pod, and a success that is not true
\* has its reason in the polls for the verdict.
Told ==
  /\ pc \in {"start", "job"} => container = "none"
  /\ pc \notin {"cleanup", "close", "drain", "settled", "panicked"} => status = "none"
  /\ pc \in {"cleanup", "close", "drain", "settled"} => status # "none"
  /\ job # "open" => job = container
  /\ status = "success" =>
       container = "succeeded" \/ "get" \in faults \/ polls = VerdictPolls

\* The verdict is asked for when the pod has ended, unless its log could not be
\* read to the end.
Awaited ==
  pc = "verdict" \/ status = "success" => container \in Ended \/ ~NoLongLine \/ LogBroken

Reports == Emptied /\ Told /\ Awaited

LEMMA ReportsStep ==
  ASSUME ControlOK, Reports, [Next]_vars
  PROVE  Reports'
<1> USE DEF Reports, Emptied, Outside, Told, Awaited, NoLongLine, LogBroken, Ended, lanes
<1>1. CASE Forwarder \/ Stall \/ UNCHANGED vars \/ \E s \in Streams : WriteLine(s) \/ Reader(s)
  BY <1>1 DEF Forwarder, Receive, WriteClient, ForwarderEnds, Stall, WriteLine, Reader,
     ReadLines, SendLine, SendOnClosed, cluster, vars
<1>2. CASE Exit
  BY <1>2 DEF Exit, ControlOK
<1>3. CASE ClusterStep
  BY <1>3 DEF ClusterStep, ControlOK
<1>4. CASE Run
  BY <1>4 DEF Run, ControlOK
<1>5. CASE Wait
  BY <1>5 DEF Wait, cluster
<1>6. CASE CloseChannel \/ Settle
  BY <1>6 DEF CloseChannel, Settle, cluster
<1>7. CASE CreateConfigMap \/ CreateJob
  BY <1>7 DEF CreateConfigMap, CreateJob, Fails, Goto, Returns, ControlOK
<1>8. CASE PollPod
  BY <1>8 DEF PollPod, Fails, Goto, cluster
<1>9. CASE GiveUpPod \/ OpenLog
  BY <1>9 DEF GiveUpPod, OpenLog, Fails, Goto, Returns, cluster
<1>10. CASE LogEnds
  BY <1>10 DEF LogEnds, Stuck, Streams, Fails, Goto, cluster
<1>11. CASE PollVerdict
  BY <1>11 DEF PollVerdict, Fails, Goto, Returns, cluster
<1>12. CASE GiveUpVerdict
  BY <1>12 DEF GiveUpVerdict, Goto, Returns, cluster
<1>13. CASE Cleanup
  BY <1>13 DEF Cleanup, Fails, Goto, ControlOK
<1>14. QED
  BY <1>1, <1>2, <1>3, <1>4, <1>5, <1>6, <1>7, <1>8, <1>9, <1>10, <1>11, <1>12, <1>13
     DEF Next, Container, Handler

LEMMA ReportsInvariant == Spec => [](ControlOK /\ Reports)
<1>1. Init => Reports
  BY DEF Init, Reports, Emptied, Outside, Told, Awaited
<1>2. Reports /\ TypeInv /\ [Next]_vars => Reports'
  BY ReportsStep DEF TypeInv
<1>3. TypeInv => ControlOK
  BY DEF TypeInv
<1>4. QED
  BY <1>1, <1>2, <1>3, TypeInvariant, PTL DEF Spec

\* Whatever fails on the way but a delete, a run leaves neither a ConfigMap nor
\* a job behind.
THEOREM RunsLeaveNothing == Spec => []NothingIsLeft
<1>1. Reports => NothingIsLeft
  BY DEF Reports, Emptied, Outside, NothingIsLeft
<1>2. QED
  BY <1>1, ReportsInvariant, PTL

\* A container that fails is reported as a failure, unless the verdict of its
\* job could not be read within the polls.
THEOREM FailuresAreReported == Spec => []FailureIsReported
<1>1. ControlOK /\ Reports => FailureIsReported
  BY DEF ControlOK, Reports, Told, FailureIsReported
<1>2. QED
  BY <1>1, ReportsInvariant, PTL

\* No job is deleted at work and called a success while its log can be read.
THEOREM JobsAreNotCutShort == Spec => []JobIsNotCutShort
<1>1. Reports => JobIsNotCutShort
  BY DEF Reports, Awaited, JobIsNotCutShort, Ended
<1>2. QED
  BY <1>1, ReportsInvariant, PTL

-----------------------------------------------------------------------------
(* The channel                                                             *)

\* The handler of a job reads its log itself: elsewhere on its way no line is
\* between the scanner and the channel.
Handed ==
  /\ mode = "kubernetes" => pc # "wait" /\ total["stderr"] = 0
  /\ mode = "kubernetes" /\ pc # "follow" => \A s \in Streams : Scanned(s)
  /\ closed => pc \in {"drain", "settled", "panicked"}
  /\ forwarder = "ended" => closed
  /\ pc = "settled" => forwarder = "ended"
  /\ JobNeverPanics

\* What the pod has not written cannot be read: the other lane stays empty.
LEMMA OneLane ==
  ASSUME LinesInv, total["stderr"] = 0
  PROVE  Scanned("stderr")
<1>1. "stderr" \in Streams
  BY DEF Streams
<1>2. QED
  BY <1>1, Counted DEF Scanned

LEMMA HandedStep ==
  ASSUME TypeInv, TypeInv', Handed, [Next]_vars
  PROVE  Handed'
<1> USE DEF Handed, JobNeverPanics, Scanned, lanes
<1>1. CASE Exit \/ ClusterStep \/ Stall \/ UNCHANGED vars \/ \E s \in Streams : WriteLine(s)
  BY <1>1 DEF Exit, ClusterStep, Stall, WriteLine, cluster, vars
<1>2. CASE Forwarder
  BY <1>2 DEF Forwarder, Receive, WriteClient, ForwarderEnds, cluster
<1>3. ASSUME NEW s \in Streams, ReadLines(s) PROVE Handed'
  BY <1>3 DEF ReadLines
<1>4. ASSUME NEW s \in Streams, SendLine(s) PROVE Handed'
  <2>1. mode = "kubernetes" => pc = "follow"
    BY <1>4 DEF SendLine
  <2>2. QED
    BY <1>4, <2>1 DEF SendLine
<1>5. ASSUME NEW s \in Streams, SendOnClosed(s) PROVE Handed'
  <2>1. mode # "kubernetes"
    BY <1>5 DEF SendOnClosed
  <2>2. QED
    BY <1>5, <2>1 DEF SendOnClosed
<1>6. CASE LogEnds
  <2>1. mode = "kubernetes" => \A s \in Streams : Scanned(s)
    BY <1>6, OneLane DEF LogEnds, TypeInv, Streams
  <2>2. pc' = "verdict" /\ UNCHANGED <<mode, total, read, sent, closed, forwarder>>
    BY <1>6 DEF LogEnds, Goto
  <2>3. QED
    BY <1>6, <2>1, <2>2 DEF LogEnds
<1>7. CASE Run \/ Wait \/ CloseChannel \/ Settle
  BY <1>7 DEF Run, Wait, CloseChannel, Settle
<1>8. CASE CreateConfigMap \/ CreateJob \/ PollPod \/ GiveUpPod \/ OpenLog
  BY <1>8 DEF CreateConfigMap, CreateJob, PollPod, GiveUpPod, OpenLog, Goto, Returns
<1>9. CASE PollVerdict \/ GiveUpVerdict \/ Cleanup
  BY <1>9 DEF PollVerdict, GiveUpVerdict, Cleanup, Goto, Returns
<1>10. QED
  BY <1>1, <1>2, <1>3, <1>4, <1>5, <1>6, <1>7, <1>8, <1>9 DEF Next, Container, Reader, Handler

LEMMA HandedInvariant == Spec => []Handed
<1>1. Init => Handed
  BY DEF Init, Handed, JobNeverPanics, Scanned, Streams, Lanes
<1>2. TypeInv /\ TypeInv' /\ Handed /\ [Next]_vars => Handed'
  BY HandedStep
<1>3. QED
  BY <1>1, <1>2, TypeInvariant, PTL DEF Spec

\* Under Kubernetes no line is sent on the closed channel.  (Under docker the
\* readers are goroutines of their own, and one may be.)
THEOREM JobsNeverPanic == Spec => []JobNeverPanics
<1>1. Handed => JobNeverPanics
  BY DEF Handed
<1>2. QED
  BY <1>1, HandedInvariant, PTL

\* A job is not cut short and called a success, leaves nothing in the cluster,
\* and sends nothing on the closed channel.
THEOREM JobsEndInOrder == Spec => []JobEndsInOrder
BY RunsLeaveNothing, JobsAreNotCutShort, JobsNeverPanic, PTL DEF JobEndsInOrder

\* The record that the handler stores is complete: the forwarder adds nothing
\* to it afterwards.
THEOREM RecordsAreFinal == Spec => SettledIsFinal
<1>1. Handed /\ [Next]_vars => [pc = "settled" => UNCHANGED allLogs]_allLogs
  <2> SUFFICES ASSUME Handed, [Next]_vars, pc = "settled" PROVE UNCHANGED allLogs
    OBVIOUS
  <2>1. forwarder = "ended"
    BY DEF Handed
  <2>2. ~Receive
    BY <2>1 DEF Receive
  <2>3. ASSUME Container \/ Stall \/ \E s \in Streams : Reader(s) PROVE UNCHANGED allLogs
    BY <2>3 DEF Container, Exit, ClusterStep, WriteLine, Stall, Reader, ReadLines, SendLine,
       SendOnClosed
  <2>4. ASSUME Handler PROVE UNCHANGED allLogs
    BY <2>4 DEF Handler, Run, Wait, CloseChannel, Settle, CreateConfigMap, CreateJob, PollPod,
       GiveUpPod, OpenLog, LogEnds, PollVerdict, GiveUpVerdict, Cleanup
  <2>5. ASSUME WriteClient \/ ForwarderEnds \/ UNCHANGED vars PROVE UNCHANGED allLogs
    BY <2>5 DEF WriteClient, ForwarderEnds, vars
  <2>6. QED
    BY <2>2, <2>3, <2>4, <2>5 DEF Next, Forwarder
<1>2. QED
  BY <1>1, HandedInvariant, PTL DEF Spec, SettledIsFinal

-----------------------------------------------------------------------------
(* The record                                                              *)

\* The lines on their way: recorded, then in the channel.
Trail == allLogs \o channel

\* Where a sequence of lines has those of a stream.
From(t, s) == {i \in DOMAIN t : t[i][1] = s}

\* The n-th of a stream in the sequence is line n.
Numbered(t) ==
  \A s \in Streams : \A i \in From(t, s) :
    t[i][2] = Cardinality({j \in From(t, s) : j <= i})

LEMMA FromIsFinite ==
  ASSUME NEW S, NEW t \in Seq(S), NEW s
  PROVE  IsFiniteSet(From(t, s)) /\ From(t, s) \subseteq 1 .. Len(t)
<1>1. DOMAIN t = 1 .. Len(t) /\ Len(t) \in Nat
  OBVIOUS
<1>2. IsFiniteSet(1 .. Len(t))
  BY <1>1, FS_Interval
<1>3. From(t, s) \subseteq 1 .. Len(t)
  BY <1>1 DEF From
<1>4. QED
  BY <1>2, <1>3, FS_Subset

\* A line that continues its stream joins the end.
LEMMA LineJoins ==
  ASSUME NEW S, NEW t \in Seq(S), Numbered(t), NEW s \in Streams,
         NEW n, n = Cardinality(From(t, s)) + 1, <<s, n>> \in S
  PROVE  /\ Numbered(Append(t, <<s, n>>))
         /\ Cardinality(From(Append(t, <<s, n>>), s)) = n
         /\ \A r \in Streams \ {s} : From(Append(t, <<s, n>>), r) = From(t, r)
<1> DEFINE line == <<s, n>>
           k == Len(t) + 1
           t2 == Append(t, line)
<1>1. t2 \in Seq(S) /\ Len(t2) = k /\ Len(t) \in Nat /\ k \in Nat
  BY AddLine
<1>2. t2[k] = line /\ line[1] = s /\ line[2] = n
  OBVIOUS
<1>3. DOMAIN t = 1 .. Len(t) /\ DOMAIN t2 = 1 .. k
  BY <1>1
<1>4. \A i \in DOMAIN t : t2[i] = t[i] /\ i \in DOMAIN t2 /\ i < k
  BY <1>1, <1>3
<1>5. \A i \in DOMAIN t2 : i = k \/ i \in DOMAIN t
  BY <1>1, <1>3
<1>6. k \in DOMAIN t2 /\ k \notin DOMAIN t
  BY <1>1, <1>3
<1> HIDE DEF t2, line, k
<1>7. \A r \in Streams \ {s} : From(t2, r) = From(t, r)
  BY <1>2, <1>4, <1>5 DEF From
<1>8. From(t2, s) = From(t, s) \cup {k} /\ k \notin From(t, s)
  BY <1>2, <1>4, <1>5, <1>6 DEF From
<1>9. Cardinality(From(t2, s)) = n
  BY <1>8, FromIsFinite, FS_AddElement
<1>10. ASSUME NEW r \in Streams, NEW i \in From(t2, r), i # k
       PROVE  t2[i][2] = Cardinality({j \in From(t2, r) : j <= i})
  <2>1. i \in DOMAIN t /\ i \in From(t, r)
    BY <1>4, <1>5, <1>10 DEF From
  <2>2. i < k /\ i \in Nat
    BY <1>3, <1>4, <2>1
  <2>3. \A j \in From(t2, r) : j <= i => j \in From(t, r)
    BY <1>1, <1>7, <1>8, <2>2
  <2>4. From(t, r) \subseteq From(t2, r)
    BY <1>7, <1>8
  <2>5. {j \in From(t2, r) : j <= i} = {j \in From(t, r) : j <= i}
    BY <2>3, <2>4
  <2>6. t2[i] = t[i]
    BY <1>4, <2>1
  <2>7. QED
    BY <2>1, <2>5, <2>6 DEF Numbered
<1>11. t2[k][2] = Cardinality({j \in From(t2, s) : j <= k})
  <2>1. \A j \in From(t2, s) : j <= k
    BY <1>1, <1>3 DEF From
  <2>2. {j \in From(t2, s) : j <= k} = From(t2, s)
    BY <2>1
  <2>3. QED
    BY <1>2, <1>9, <2>2
<1>12. \A r \in Streams : k \in From(t2, r) => r = s
  BY <1>2 DEF From
<1>13. Numbered(t2)
  BY <1>10, <1>11, <1>12 DEF Numbered
<1>14. QED
  BY <1>7, <1>9, <1>13 DEF t2, line

\* The beginning of a numbered sequence is numbered.
LEMMA BeginningIsNumbered ==
  ASSUME NEW S, NEW p \in Seq(S), NEW q \in Seq(S), Numbered(p \o q)
  PROVE  Numbered(p)
<1> DEFINE t == p \o q
<1>1. Len(p) \in Nat /\ Len(q) \in Nat /\ DOMAIN p = 1 .. Len(p)
  OBVIOUS
<1>2. DOMAIN t = 1 .. (Len(p) + Len(q)) /\ \A i \in DOMAIN p : t[i] = p[i]
  BY <1>1
<1> HIDE DEF t
<1>3. ASSUME NEW s \in Streams, NEW i \in From(p, s)
      PROVE  p[i][2] = Cardinality({j \in From(p, s) : j <= i})
  <2>1. i \in 1 .. Len(p) /\ i \in From(t, s) /\ t[i] = p[i]
    BY <1>1, <1>2 DEF From
  <2>2. ASSUME NEW j \in From(t, s), j <= i PROVE j \in From(p, s)
    <3>1. j \in 1 .. Len(p)
      BY <1>1, <1>2, <2>1, <2>2 DEF From
    <3>2. QED
      BY <1>1, <1>2, <3>1 DEF From
  <2>3. From(p, s) \subseteq From(t, s)
    BY <1>1, <1>2 DEF From
  <2>4. {j \in From(t, s) : j <= i} = {j \in From(p, s) : j <= i}
    BY <2>2, <2>3
  <2>5. QED
    BY <2>1, <2>4 DEF Numbered, t
<1>4. QED
  BY <1>3 DEF Numbered

\* What is on its way is numbered, and all that has been sent is on its way.
Kept ==
  /\ Numbered(Trail)
  /\ \A s \in Streams : Cardinality(From(Trail, s)) = sent[s]
  /\ forwarder = "ended" => channel = <<>>

LEMMA KeptStep ==
  ASSUME TypeInv, Handed, Kept, [Next]_vars
  PROVE  Kept'
<1> DEFINE Line == Streams \X (1 .. MaxLines)
<1>1. allLogs \in Seq(Line) /\ channel \in Seq(Line)
  BY DEF TypeInv, LinesInv, LinesOK
<1>2. ASSUME NEW s \in Streams, SendLine(s) PROVE Kept'
  <2>1. sent[s] # read[s] /\ ~closed /\ channel' = Append(channel, <<s, sent[s] + 1>>)
    BY <1>2 DEF SendLine, Scanned
  <2>2. sent[s] + 1 \in 1 .. MaxLines
    BY <2>1, Counted, RunStreamAssumption DEF TypeInv
  <2>3. <<s, sent[s] + 1>> \in Line
    BY <2>2
  <2>4. Trail' = Append(Trail, <<s, sent[s] + 1>>) /\ Trail \in Seq(Line)
    BY <1>1, <1>2, <2>1, <2>3 DEF Trail, SendLine
  <2>5. /\ Numbered(Append(Trail, <<s, sent[s] + 1>>))
        /\ Cardinality(From(Append(Trail, <<s, sent[s] + 1>>), s)) = sent[s] + 1
        /\ \A r \in Streams \ {s} : From(Append(Trail, <<s, sent[s] + 1>>), r) = From(Trail, r)
    BY <2>3, <2>4, LineJoins DEF Kept
  <2>6. sent' = [sent EXCEPT ![s] = sent[s] + 1] /\ sent \in [Streams -> 0 .. MaxLines]
    BY <1>2 DEF SendLine, TypeInv, LinesInv, LinesOK
  <2>7. \A r \in Streams : Cardinality(From(Trail', r)) = sent'[r]
    BY <2>4, <2>5, <2>6 DEF Kept
  <2>8. forwarder' # "ended"
    BY <1>2, <2>1 DEF SendLine, Handed
  <2>9. Numbered(Trail')
    BY <2>4, <2>5
  <2>10. QED
    BY <2>7, <2>8, <2>9 DEF Kept, Numbered, From
<1>3. CASE Receive
  <2>1. channel # <<>> /\ allLogs' = Append(allLogs, Head(channel)) /\ channel' = Tail(channel)
    BY <1>3 DEF Receive
  <2>2. Append(allLogs, Head(channel)) \o Tail(channel) = allLogs \o channel
    BY <1>1, <2>1
  <2>3. Trail' = Trail
    BY <2>1, <2>2 DEF Trail
  <2>4. sent' = sent /\ forwarder' = "write"
    BY <1>3 DEF Receive
  <2>5. QED
    BY <2>3, <2>4 DEF Kept, Numbered, From
<1>4. CASE ForwarderEnds
  BY <1>4 DEF ForwarderEnds, Kept, Trail, Numbered, From
<1>5. CASE UNCHANGED <<sent, channel, allLogs, forwarder>>
  BY <1>5 DEF Kept, Trail, Numbered, From
<1>6. CASE WriteClient
  BY <1>6 DEF WriteClient, Kept, Trail, Numbered, From
<1>7. ASSUME Container \/ Stall \/ UNCHANGED vars \/ \E s \in Streams : ReadLines(s) \/ SendOnClosed(s)
      PROVE  UNCHANGED <<sent, channel, allLogs, forwarder>>
  BY <1>7 DEF Container, Exit, ClusterStep, WriteLine, Stall, ReadLines, SendOnClosed, vars
<1>8. ASSUME Handler PROVE UNCHANGED <<sent, channel, allLogs, forwarder>>
  BY <1>8 DEF Handler, Run, Wait, CloseChannel, Settle, CreateConfigMap, CreateJob, PollPod,
     GiveUpPod, OpenLog, LogEnds, PollVerdict, GiveUpVerdict, Cleanup
<1>9. QED
  BY <1>2, <1>3, <1>4, <1>5, <1>6, <1>7, <1>8 DEF Next, Forwarder, Reader

LEMMA KeptInvariant == Spec => []Kept
<1>1. Init => Kept
  <2> SUFFICES ASSUME Init PROVE Kept
    OBVIOUS
  <2>1. Trail = <<>> /\ forwarder = "receive" /\ channel = <<>>
    BY DEF Init, Trail
  <2>2. \A s \in Streams : From(Trail, s) = {} /\ sent[s] = 0
    BY <2>1 DEF From, Init
  <2>3. QED
    BY <2>1, <2>2, FS_EmptySet DEF Kept, Numbered
<1>2. TypeInv /\ Handed /\ Kept /\ [Next]_vars => Kept'
  BY KeptStep
<1>3. QED
  BY <1>1, <1>2, TypeInvariant, HandedInvariant, PTL DEF Spec

\* A pod that has ended has written all its lines, and the log of a job whose
\* verdict is asked for has been read to its end, unless it could not be.
ReadToEnd ==
  /\ container \in Ended => written = total
  /\ mode = "kubernetes" /\ (pc = "verdict" \/ status = "success") =>
       read["stdout"] = total["stdout"] \/ ~NoLongLine \/ LogBroken

LEMMA ReadToEndStep ==
  ASSUME TypeInv, Handed, Reports, ReadToEnd, [Next]_vars
  PROVE  ReadToEnd'
<1> USE DEF ReadToEnd, NoLongLine, LogBroken, Ended, lanes
<1>1. CASE Forwarder \/ Stall \/ UNCHANGED vars
  BY <1>1 DEF Forwarder, Receive, WriteClient, ForwarderEnds, Stall, cluster, vars
<1>2. ASSUME NEW s \in Streams, WriteLine(s) PROVE ReadToEnd'
  BY <1>2 DEF WriteLine, cluster
<1>3. ASSUME NEW s \in Streams, ReadLines(s) PROVE ReadToEnd'
  <2>1. pc' = pc /\ pc # "verdict" /\ status' = status /\ status # "success"
    BY <1>3 DEF ReadLines, Reports, Told
  <2>2. QED
    BY <1>3, <2>1 DEF ReadLines, cluster
<1>4. ASSUME NEW s \in Streams, SendLine(s) \/ SendOnClosed(s) PROVE ReadToEnd'
  BY <1>4 DEF SendLine, SendOnClosed, cluster
<1>5. CASE Exit
  BY <1>5 DEF Exit
<1>6. CASE ClusterStep
  BY <1>6 DEF ClusterStep
<1>7. CASE Run \/ CloseChannel \/ Settle
  BY <1>7 DEF Run, CloseChannel, Settle, cluster
<1>8. CASE Wait
  <2>1. mode # "kubernetes"
    BY <1>8 DEF Wait, Handed
  <2>2. QED
    BY <1>8, <2>1 DEF Wait, cluster
<1>9. CASE CreateConfigMap \/ CreateJob \/ PollPod
  BY <1>9 DEF CreateConfigMap, CreateJob, PollPod, Fails, Goto, Returns, cluster
<1>10. CASE GiveUpPod \/ OpenLog
  BY <1>10 DEF GiveUpPod, OpenLog, Fails, Goto, Returns, cluster
<1>11. CASE LogEnds
  <2>1. "stdout" \in Streams
    BY DEF Streams
  <2>2. \/ read["stdout"] = total["stdout"]
        \/ ~NoLongLine
        \/ LogBroken'
    BY <1>11, <2>1 DEF LogEnds, Stuck, Fails
  <2>3. UNCHANGED <<mode, container, written, total, long, read>>
    BY <1>11 DEF LogEnds, cluster
  <2>4. QED
    BY <2>2, <2>3
<1>12. CASE PollVerdict \/ GiveUpVerdict
  BY <1>12 DEF PollVerdict, GiveUpVerdict, Fails, Goto, Returns, cluster
<1>13. CASE Cleanup
  BY <1>13 DEF Cleanup, Fails, Goto
<1>14. QED
  BY <1>1, <1>2, <1>3, <1>4, <1>5, <1>6, <1>7, <1>8, <1>9, <1>10, <1>11, <1>12, <1>13
     DEF Next, Container, Reader, Handler

LEMMA ReadToEndInvariant == Spec => []ReadToEnd
<1>1. Init => ReadToEnd
  BY DEF Init, ReadToEnd, Ended
<1>2. TypeInv /\ Handed /\ Reports /\ ReadToEnd /\ [Next]_vars => ReadToEnd'
  BY ReadToEndStep
<1>3. QED
  BY <1>1, <1>2, TypeInvariant, HandedInvariant, ReportsInvariant, PTL DEF Spec

\* What the record of a run has of a stream is the beginning of what the
\* container wrote to it, and the record of a job that is called a success is
\* whole, unless its log could not be read to the end.
THEOREM RecordsAreTrue == Spec => []RecordIsTrue
<1>1. TypeInv /\ Kept => RecordIsPrefix
  <2> SUFFICES ASSUME TypeInv, Kept PROVE RecordIsPrefix
    OBVIOUS
  <2>1. allLogs \in Seq(Streams \X (1 .. MaxLines)) /\ channel \in Seq(Streams \X (1 .. MaxLines))
    BY DEF TypeInv, LinesInv, LinesOK
  <2>2. Numbered(allLogs)
    BY <2>1, BeginningIsNumbered DEF Kept, Trail
  <2>3. QED
    BY <2>2 DEF Numbered, RecordIsPrefix, LinesOf, From
<1>2. TypeInv /\ Handed /\ Kept /\ ReadToEnd => JobRecordIsWhole
  <2> SUFFICES ASSUME TypeInv, Handed, Kept, ReadToEnd,
                      pc = "settled", mode = "kubernetes", status = "success",
                      NoLongLine, ~LogBroken,
                      NEW s \in Streams
               PROVE  Cardinality(LinesOf(s)) = total[s]
    BY DEF JobRecordIsWhole
  <2>1. Trail = allLogs
    BY DEF Handed, Kept, Trail, TypeInv, LinesInv, LinesOK
  <2>2. Cardinality(LinesOf(s)) = sent[s]
    BY <2>1 DEF Kept, From, LinesOf
  <2>3. sent[s] = read[s]
    BY DEF Handed, Scanned
  <2>4. CASE s = "stdout"
    BY <2>2, <2>3, <2>4 DEF ReadToEnd
  <2>5. CASE s = "stderr"
    <3>1. total[s] = 0
      BY <2>5 DEF Handed
    <3>2. sent[s] = 0
      BY <3>1, Counted DEF TypeInv
    <3>3. QED
      BY <2>2, <3>1, <3>2
  <2>6. QED
    BY <2>4, <2>5 DEF Streams
<1>3. QED
  BY <1>1, <1>2, TypeInvariant, HandedInvariant, KeptInvariant, ReadToEndInvariant, PTL
     DEF RecordIsTrue
=============================================================================
