------------------------------- MODULE Drift --------------------------------
(***************************************************************************)
(* The scheduler of drift checks (drift_detector.go) and the handler of    *)
(* its setting (driftSettingsHandler, handler_drift.go), on top of         *)
(* Settings.  StartDriftScheduler runs under driftMu, but its loops read   *)
(* the globals driftScheduler and driftStopCh without it, and read them    *)
(* again at every turn.  A ticker, a channel and a loop are named by the   *)
(* request that made them, or "boot".                                      *)
(***************************************************************************)
EXTENDS Settings

CONSTANTS
  Callers,   \* requests for a round of checks of all resources
  Intervals  \* hours of a setting; 0 is a setting that turns the checks off

ASSUME DriftAssumption ==
  /\ "drift" \in Sections
  /\ Intervals \subseteq Nat
  /\ "boot" \notin Writers \cup Callers /\ None # "boot"
  /\ Callers \cap Writers = {} /\ None \notin Callers

VARIABLES
  hours,       \* the interval each request asks for
  starting,    \* how far each request is in StartDriftScheduler
  driftMu,     \* who holds the mutex between two steps
  ticker,      \* driftScheduler
  stopCh,      \* driftStopCh
  stopped,     \* tickers that are stopped
  closed,      \* channels that are closed
  at,          \* where each loop and caller is
  watched,     \* the ticker and the channel each loop waits on
  driftRunning

scheduler == <<hours, starting, driftMu, ticker, stopCh, stopped, closed>>
vars == <<settings, scheduler, at, watched, driftRunning>>

Starters == Writers \cup {"boot"}
Actors   == Starters \cup Callers

TypeOK ==
  /\ SettingsOK
  /\ hours \in [Writers -> Intervals \cup {0}]
  /\ starting \in [Writers -> {"no", "ticker", "channel", "done", "panicked"}]
  /\ driftMu \in Writers \cup {None}
  /\ ticker \in Starters \cup {None} /\ stopCh \in Starters \cup {None}
  /\ stopped \subseteq Starters /\ closed \subseteq Starters
  /\ at \in [Actors -> {"none", "ticker", "channel", "select", "enter", "round", "ended"}]
  /\ watched \in [Starters -> [ticker: Starters \cup {None}, channel: Starters \cup {None}]]
  /\ driftRunning \in BOOLEAN

Nothing == [ticker |-> None, channel |-> None]

Init ==
  /\ SettingsInit
  /\ hours = [w \in Writers |-> 0]
  /\ starting = [w \in Writers |-> "no"]
  /\ driftMu = None
  /\ ticker = None /\ stopCh = None
  /\ stopped = {} /\ closed = {}
  /\ at = [a \in Actors |-> "none"]
  /\ watched = [l \in Starters |-> Nothing]
  /\ driftRunning = FALSE

Goto(a, stage) == at' = [at EXCEPT ![a] = stage]

\* The interval that is in force, 0 when the checks are off.
Interval == IF memory["drift"] = None THEN 0 ELSE hours[memory["drift"]]

\* A request whose handler has still to start or stop the scheduler.
Starting ==
  {w \in Writers : writer[w] = "saved" /\ section[w] = "drift"
                     /\ starting[w] \in {"no", "ticker", "channel"}}

-----------------------------------------------------------------------------
(* Settings                                                                *)

ChangeSetting(w) ==
  /\ Overlapping \/ Starting = {}
  /\ \E s \in Sections : Set(w, s) /\
       \E h \in IF s = "drift" THEN Intervals ELSE {0} : hours' = [hours EXCEPT ![w] = h]
  /\ UNCHANGED <<starting, driftMu, ticker, stopCh, stopped, closed, at, watched, driftRunning>>

SaveSetting(w) ==
  /\ SettingsStep(w)
  /\ UNCHANGED <<scheduler, at, watched, driftRunning>>

-----------------------------------------------------------------------------
(* StartDriftScheduler                                                     *)

\* The globals keep a stopped ticker and a closed channel.  To close it again
\* panics: net/http recovers, and the deferred unlock frees the mutex.
StopScheduler(w) ==
  /\ w \in Starting /\ starting[w] = "no" /\ driftMu = None
  /\ stopped' = stopped \cup ({ticker} \ {None})
  /\ closed' = closed \cup ({stopCh} \ {None})
  /\ LET stage == IF stopCh \in closed THEN "panicked"
                  ELSE IF hours[w] = 0 THEN "done" ELSE "ticker"
     IN  /\ starting' = [starting EXCEPT ![w] = stage]
         /\ driftMu' = IF stage = "ticker" THEN w ELSE None
  /\ UNCHANGED <<settings, hours, ticker, stopCh, at, watched, driftRunning>>

NewTicker(w) ==
  /\ starting[w] = "ticker"
  /\ ticker' = w
  /\ starting' = [starting EXCEPT ![w] = "channel"]
  /\ UNCHANGED <<settings, hours, driftMu, stopCh, stopped, closed, at, watched, driftRunning>>

\* The channel is made, the loop is started, and the mutex is freed.
NewLoop(w) ==
  /\ starting[w] = "channel"
  /\ stopCh' = w
  /\ Goto(w, "ticker")
  /\ driftMu' = None
  /\ starting' = [starting EXCEPT ![w] = "done"]
  /\ UNCHANGED <<settings, hours, ticker, stopped, closed, watched, driftRunning>>

-----------------------------------------------------------------------------
(* The loops                                                               *)

\* select evaluates both of its channels, one after the other.
ReadTicker(l) ==
  /\ l \in Starters /\ at[l] = "ticker"
  /\ watched' = [watched EXCEPT ![l].ticker = ticker]
  /\ Goto(l, "channel")
  /\ UNCHANGED <<settings, scheduler, driftRunning>>

ReadChannel(l) ==
  /\ at[l] = "channel"
  /\ watched' = [watched EXCEPT ![l].channel = stopCh]
  /\ Goto(l, "select")
  /\ UNCHANGED <<settings, scheduler, driftRunning>>

\* A stopped ticker has no tick left over.
Tick(l) ==
  /\ at[l] = "select"
  /\ watched[l].ticker \notin stopped
  /\ Goto(l, "enter")
  /\ watched' = [watched EXCEPT ![l] = Nothing]
  /\ UNCHANGED <<settings, scheduler, driftRunning>>

EndLoop(l) ==
  /\ at[l] = "select"
  /\ watched[l].channel \in closed
  /\ Goto(l, "ended")
  /\ watched' = [watched EXCEPT ![l] = Nothing]
  /\ UNCHANGED <<settings, scheduler, driftRunning>>

-----------------------------------------------------------------------------
(* Rounds of checks                                                        *)

\* driftCheckAllHandler starts a goroutine.
AskRound(c) ==
  /\ server = "up" /\ at[c] = "none"
  /\ Goto(c, "enter")
  /\ UNCHANGED <<settings, scheduler, watched, driftRunning>>

AfterRound(a) == IF a \in Callers THEN "ended" ELSE "ticker"

\* Seeded: the flag is set and never looked at.
EnterAlways(a) ==
  /\ at[a] = "enter" /\ driftMu = None
  /\ Goto(a, "round") /\ driftRunning' = TRUE
  /\ UNCHANGED <<settings, scheduler, watched>>

\* runAllDriftChecks returns at once while a round is at work.
EnterRound(a) ==
  /\ at[a] = "enter" /\ driftMu = None
  /\ Goto(a, IF driftRunning THEN AfterRound(a) ELSE "round")
  /\ driftRunning' = TRUE
  /\ UNCHANGED <<settings, scheduler, watched>>

LeaveRound(a) ==
  /\ at[a] = "round" /\ driftMu = None
  /\ Goto(a, AfterRound(a))
  /\ driftRunning' = FALSE
  /\ UNCHANGED <<settings, scheduler, watched>>

-----------------------------------------------------------------------------
(* Crash and restart                                                       *)

Crash ==
  /\ SettingsCrash
  /\ starting' = [w \in Writers |-> IF w \in Starting THEN "done" ELSE starting[w]]
  /\ driftMu' = None
  /\ ticker' = None /\ stopCh' = None /\ stopped' = {} /\ closed' = {}
  /\ at' = [a \in Actors |-> IF a \in Callers /\ at[a] # "none" THEN "ended" ELSE "none"]
  /\ watched' = [l \in Starters |-> Nothing]
  /\ driftRunning' = FALSE
  /\ UNCHANGED hours

\* Seeded: the scheduler waits for a change of its setting.
BootIdle ==
  /\ Load
  /\ UNCHANGED <<scheduler, at, watched, driftRunning>>

\* main loads the settings and starts the scheduler if they say so.
Boot ==
  /\ Load
  /\ IF Loaded["drift"] # None /\ hours[Loaded["drift"]] > 0
       THEN ticker' = "boot" /\ stopCh' = "boot" /\ Goto("boot", "ticker")
       ELSE UNCHANGED <<ticker, stopCh, at>>
  /\ UNCHANGED <<hours, starting, driftMu, stopped, closed, watched, driftRunning>>

-----------------------------------------------------------------------------

Handler(w) == SaveSetting(w) \/ StopScheduler(w) \/ NewTicker(w) \/ NewLoop(w)

Loop(l) == ReadTicker(l) \/ ReadChannel(l) \/ Tick(l) \/ EndLoop(l)

Round(a) == EnterRound(a) \/ LeaveRound(a)

Next ==
  \/ \E w \in Writers : ChangeSetting(w) \/ Handler(w)
  \/ \E l \in Starters : Loop(l)
  \/ \E c \in Callers : AskRound(c)
  \/ \E a \in Actors : Round(a)
  \/ Crash \/ Boot

Spec == Init /\ [][Next]_vars

-----------------------------------------------------------------------------
(* Properties                                                              *)

\* One round of checks is at work at a time, whoever has asked for it.
OneRound == Cardinality({a \in Actors : at[a] = "round"}) <= 1

Settled ==
  /\ server = "up" /\ Saving = {} /\ Starting = {}
  /\ \A w \in Writers : writer[w] # "failed"

\* The scheduler follows its setting: a ticker of the interval in force is at
\* work, and some loop waits on it or is about to.
Scheduled ==
  /\ ticker \in {memory["drift"], "boot"} \ stopped
  /\ \E l \in Starters :
       /\ at[l] \notin {"none", "ended"}
       /\ at[l] \in {"channel", "select"} => watched[l].ticker = ticker
       /\ at[l] = "select" => watched[l].channel = stopCh

\* The setting that is in force has its scheduler, after changes, during rounds
\* and after a restart, as long as the checks were not turned off.
ScheduleIsKept == Settled /\ Interval > 0 /\ stopCh \notin closed => Scheduled

\* Once the checks are turned off no loop waits on for a tick, not even one that
\* was busy with a round when they were: each has its stop before it, now or at
\* its next turn.
OffReachesAll ==
  Settled /\ Interval = 0 =>
    /\ {ticker, stopCh} \ {None} \subseteq stopped \cap closed
    /\ \A l \in Starters : at[l] = "select" =>
         watched[l].ticker \in stopped /\ watched[l].channel \in closed

\* The scheduler follows its setting, when that is on and when it is off
\* (drift_detector.go:144-175, handler_drift.go:114-130, main.go:42).
SchedulerFollows == ScheduleIsKept /\ OffReachesAll

\* Checks that are turned on are scheduled.
OnIsScheduled == Settled /\ Interval > 0 => Scheduled
=============================================================================
