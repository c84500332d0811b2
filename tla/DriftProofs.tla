----------------------------- MODULE DriftProofs -----------------------------
(***************************************************************************)
(* Theorems about Drift and Settings, for all sets of requests, sections,  *)
(* callers and intervals and any number of crashes and errors.  All but    *)
(* the first two are about requests that do not overlap.                   *)
(***************************************************************************)
EXTENDS Drift, FiniteSetTheorems, TLAPS

-----------------------------------------------------------------------------
(* The parts of the inductive invariant                                    *)

\* The flag is up exactly while a round is at work, and one is at a time.
Guarded ==
  /\ (\E a \in Actors : at[a] = "round") => driftRunning
  /\ \A a, b \in Actors : at[a] = "round" /\ at[b] = "round" => a = b

\* One request is saving; its copy is what is in force, and so is the file
\* when nobody is saving and no write has failed.
Store ==
  /\ \A v, w \in Saving : v = w
  /\ \A w \in Writers : writer[w] \in {"truncate", "write"} => snapshot[w] = memory
  /\ \A w \in Writers : writer[w] = "write" => file = Empty
  /\ RestartLosesNothing

\* The interval that contents ask for was asked for by a request for it.
Known(c) ==
  c \in Contents => \A w \in Writers : c["drift"] = w => writer[w] # "idle" /\ section[w] = "drift"

\* A request that has its setting in force and has still to act on it, or has
\* failed to save it.
Owing ==
  /\ memory["drift"] \in Writers
  /\ starting[memory["drift"]] \in {"no", "ticker", "channel"}
  /\ writer[memory["drift"]] \in {"copy", "truncate", "write", "saved", "failed"}

Asked ==
  /\ Known(memory) /\ Known(file) /\ \A w \in Writers : Known(snapshot[w])
  /\ \A w \in Writers : writer[w] = "idle" => starting[w] = "no"
  /\ \A w \in Saving \cup Starting : section[w] = "drift" => memory["drift"] = w

\* Nothing of a dead process goes on.
Down ==
  server = "down" =>
    /\ Saving = {} /\ Starting = {}
    /\ ticker = None /\ stopCh = None
    /\ \A l \in Starters : at[l] = "none"

\* The mutex is held by the request that is between its steps; ticker and
\* channel change, and are stopped and closed, together; names are fresh.
Generations ==
  /\ stopped = closed /\ None \notin stopped
  /\ driftMu = None => ticker = stopCh
  /\ \A w \in Writers : starting[w] \in {"ticker", "channel"} =>
       driftMu = w /\ w \in Starting /\ hours[w] > 0
  /\ driftMu # None => starting[driftMu] \in {"ticker", "channel"}
  /\ \A w \in Writers : starting[w] = "ticker" => ticker = stopCh /\ ticker \in stopped \cup {None}
  /\ \A w \in Writers : starting[w] = "channel" => ticker = w /\ stopCh \in stopped \cup {None}
  /\ \A w \in Writers : starting[w] \in {"no", "ticker"} => w \notin stopped \cup {ticker, stopCh}
  /\ \A w \in Writers : starting[w] = "channel" => w \notin stopped \cup {stopCh}

\* Whatever a loop waits on is at work or was stopped.
Loops ==
  \A l \in Starters :
    /\ at[l] \notin {"none", "ended"} => ticker # None /\ stopCh # None
    /\ at[l] \in {"channel", "select"} => watched[l].ticker \in stopped \cup {ticker}
    /\ at[l] = "select" => watched[l].channel \in closed \cup {stopCh}

Live == stopCh # None /\ stopCh \notin closed

\* The loop that was started with the channel goes on and waits on it.
OwnLoop ==
  Live =>
    /\ at[stopCh] \notin {"none", "ended"}
    /\ at[stopCh] \in {"channel", "select"} => watched[stopCh].ticker = ticker
    /\ at[stopCh] = "select" => watched[stopCh].channel = stopCh

\* A scheduler at work is the one of the interval in force, and an interval in
\* force has had its scheduler.
InForce ==
  server = "up" /\ ~Owing =>
    /\ Live => Interval > 0 /\ stopCh \in {memory["drift"], "boot"}
    /\ stopCh = None => Interval = 0

InTurn == Store /\ Asked /\ Down /\ Generations /\ Loops /\ OwnLoop /\ InForce

-----------------------------------------------------------------------------
(* Types                                                                   *)

LEMMA SettingsStepType ==
  ASSUME SettingsOK, NEW w \in Writers, SettingsStep(w)
  PROVE  SettingsOK'
<1> USE FileAssumption, SettingsAssumption DEF SettingsOK, Moves
<1>1. CASE Copy(w)
  BY <1>1 DEF Copy
<1>2. CASE Truncate(w)
  BY <1>2 DEF Truncate
<1>3. CASE Write(w)
  BY <1>3 DEF Write
<1>4. QED BY <1>1, <1>2, <1>3 DEF SettingsStep

LEMMA LoadType ==
  ASSUME SettingsOK, Load
  PROVE  SettingsOK' /\ Loaded \in Contents
<1>1. Loaded \in Contents
  BY DEF Loaded, Fresh, Contents
<1>2. QED BY <1>1 DEF Load, SettingsOK

LEMMA TypeStep == TypeOK /\ [Next]_vars => TypeOK'
<1> SUFFICES ASSUME TypeOK, [Next]_vars PROVE TypeOK'
  OBVIOUS
<1> USE DriftAssumption DEF TypeOK, Starters, Actors, Goto
<1>1. ASSUME NEW w \in Writers, ChangeSetting(w) PROVE TypeOK'
  <2>1. PICK s \in Sections : Set(w, s) /\
          \E h \in IF s = "drift" THEN Intervals ELSE {0} : hours' = [hours EXCEPT ![w] = h]
    BY <1>1 DEF ChangeSetting
  <2>2. SettingsOK'
    BY <2>1 DEF Set, SettingsOK, Contents, Moves
  <2>3. hours' \in [Writers -> Intervals \cup {0}]
    BY <2>1
  <2>4. QED BY <1>1, <2>2, <2>3 DEF ChangeSetting
<1>2. ASSUME NEW w \in Writers, SaveSetting(w) PROVE TypeOK'
  BY <1>2, SettingsStepType DEF SaveSetting, scheduler
<1>3. ASSUME NEW w \in Writers, StopScheduler(w) PROVE TypeOK'
  BY <1>3 DEF StopScheduler, settings, SettingsOK
<1>4. ASSUME NEW w \in Writers, NewTicker(w) \/ NewLoop(w) PROVE TypeOK'
  BY <1>4 DEF NewTicker, NewLoop, settings, SettingsOK
<1>5. ASSUME NEW l \in Starters, ReadTicker(l) \/ ReadChannel(l) PROVE TypeOK'
  BY <1>5 DEF ReadTicker, ReadChannel, settings, scheduler, SettingsOK
<1>6. ASSUME NEW l \in Starters, Tick(l) \/ EndLoop(l) PROVE TypeOK'
  BY <1>6 DEF Tick, EndLoop, settings, scheduler, SettingsOK, Nothing
<1>7. ASSUME NEW c \in Callers, AskRound(c) PROVE TypeOK'
  BY <1>7 DEF AskRound, settings, scheduler, SettingsOK
<1>8. ASSUME NEW a \in Actors, EnterRound(a) \/ LeaveRound(a) PROVE TypeOK'
  <2>1. AfterRound(a) \in {"ended", "ticker"}
    BY DEF AfterRound
  <2>2. CASE EnterRound(a)
    BY <2>1, <2>2 DEF EnterRound, settings, scheduler, SettingsOK
  <2>3. CASE LeaveRound(a)
    BY <2>1, <2>3 DEF LeaveRound, settings, scheduler, SettingsOK
  <2>4. QED BY <1>8, <2>2, <2>3
<1>9. CASE Crash
  <2>1. SettingsOK'
    BY <1>9, SettingsAssumption DEF Crash, SettingsCrash, SettingsOK
  <2>2. QED BY <1>9, <2>1 DEF Crash, Nothing
<1>10. CASE Boot
  <2>1. SettingsOK'
    BY <1>10, LoadType DEF Boot
  <2>2. QED BY <1>10, <2>1 DEF Boot
<1>11. CASE UNCHANGED vars
  BY <1>11 DEF vars, settings, scheduler, SettingsOK
<1>12. QED
  BY <1>1, <1>2, <1>3, <1>4, <1>5, <1>6, <1>7, <1>8, <1>9, <1>10, <1>11
     DEF Next, Handler, Loop, Round

LEMMA TypeInit == Init => TypeOK
<1> SUFFICES ASSUME Init PROVE TypeOK
  OBVIOUS
<1>1. memory \in Contents /\ file \in Contents \cup {None, Empty, Broken}
  BY DEF Init, SettingsInit, Fresh, Contents
<1>2. crashes \in 0 .. MaxCrashes /\ errors \in 0 .. MaxErrors
  BY SettingsAssumption DEF Init, SettingsInit
<1>3. SettingsOK
  BY <1>1, <1>2 DEF Init, SettingsInit, SettingsOK
<1>4. watched \in [Starters -> [ticker: Starters \cup {None}, channel: Starters \cup {None}]]
  BY DEF Init, Nothing
<1>5. QED BY <1>3, <1>4 DEF Init, TypeOK

\* Every reachable state is well typed.
THEOREM DriftType == Spec => []TypeOK
BY TypeInit, TypeStep, PTL DEF Spec

-----------------------------------------------------------------------------
(* Rounds                                                                  *)

LEMMA GuardedStep == TypeOK /\ Guarded /\ [Next]_vars => Guarded'
<1> SUFFICES ASSUME TypeOK, Guarded, [Next]_vars PROVE Guarded'
  OBVIOUS
<1> USE DEF TypeOK, Guarded, Goto, Starters, Actors
<1>1. ASSUME NEW a \in Actors, EnterRound(a) PROVE Guarded'
  BY <1>1 DEF EnterRound, AfterRound
<1>2. ASSUME NEW a \in Actors, LeaveRound(a) PROVE Guarded'
  BY <1>2 DEF LeaveRound, AfterRound
<1>3. ASSUME NEW w \in Writers, ChangeSetting(w) \/ SaveSetting(w) \/ StopScheduler(w) \/ NewTicker(w)
      PROVE  Guarded'
  BY <1>3 DEF ChangeSetting, SaveSetting, StopScheduler, NewTicker
<1>4. ASSUME NEW w \in Writers, NewLoop(w) PROVE Guarded'
  BY <1>4 DEF NewLoop
<1>5. ASSUME NEW l \in Starters, ReadTicker(l) \/ ReadChannel(l) \/ Tick(l) \/ EndLoop(l)
      PROVE  Guarded'
  BY <1>5 DEF ReadTicker, ReadChannel, Tick, EndLoop
<1>6. ASSUME NEW c \in Callers, AskRound(c) PROVE Guarded'
  BY <1>6 DEF AskRound
<1>7. CASE Crash
  BY <1>7 DEF Crash
<1>8. CASE Boot
  BY <1>8 DEF Boot
<1>9. CASE UNCHANGED vars
  BY <1>9 DEF vars
<1>10. QED
  BY <1>1, <1>2, <1>3, <1>4, <1>5, <1>6, <1>7, <1>8, <1>9 DEF Next, Handler, Loop, Round

LEMMA GuardedRounds == Guarded => OneRound
<1> SUFFICES ASSUME Guarded PROVE OneRound
  OBVIOUS
<1> DEFINE R == {a \in Actors : at[a] = "round"}
<1>1. CASE R = {}
  BY <1>1, FS_EmptySet DEF OneRound
<1>2. ASSUME NEW a \in R PROVE OneRound
  <2>1. R = {a}
    BY DEF Guarded
  <2>2. Cardinality(R) = 1
    BY <2>1, FS_Singleton
  <2>3. QED BY <2>2 DEF OneRound
<1>3. QED BY <1>1, <1>2

\* Rounds of checks exclude each other, whoever starts them: loops of old and
\* new schedulers, and clients.
THEOREM RoundsExclude == Spec => []OneRound
<1>1. Init => Guarded
  BY DriftAssumption DEF Init, Guarded, Starters, Actors
<1>2. QED BY <1>1, TypeInit, TypeStep, GuardedStep, GuardedRounds, PTL DEF Spec

-----------------------------------------------------------------------------
(* Requests that do not overlap: the store                                 *)

\* What a step does to the settings.
LEMMA SettingsMoves ==
  ASSUME [Next]_vars
  PROVE  \/ \E w \in Writers, s \in Sections : Set(w, s)
         \/ \E w \in Writers : SettingsStep(w)
         \/ SettingsCrash
         \/ Load
         \/ UNCHANGED settings
<1>1. ASSUME NEW w \in Writers, ChangeSetting(w)
      PROVE  \E s \in Sections : Set(w, s)
  BY <1>1 DEF ChangeSetting
<1>2. ASSUME NEW w \in Writers, SaveSetting(w) PROVE SettingsStep(w)
  BY <1>2 DEF SaveSetting
<1>3. ASSUME NEW w \in Writers, StopScheduler(w) \/ NewTicker(w) \/ NewLoop(w)
      PROVE  UNCHANGED settings
  BY <1>3 DEF StopScheduler, NewTicker, NewLoop
<1>4. ASSUME NEW l \in Starters, Loop(l) PROVE UNCHANGED settings
  BY <1>4 DEF Loop, ReadTicker, ReadChannel, Tick, EndLoop
<1>5. ASSUME NEW a, AskRound(a) \/ Round(a) PROVE UNCHANGED settings
  BY <1>5 DEF AskRound, Round, EnterRound, LeaveRound
<1>6. CASE Crash
  BY <1>6 DEF Crash
<1>7. CASE Boot
  BY <1>7 DEF Boot
<1>8. QED BY <1>1, <1>2, <1>3, <1>4, <1>5, <1>6, <1>7 DEF Next, Handler, vars

LEMMA StoreStep ==
  ASSUME ~Overlapping, TypeOK, Store, Down, [Next]_vars
  PROVE  Store'
<1> USE FileAssumption DEF Store, Saving, Moves, TypeOK, SettingsOK
<1>1. ASSUME NEW w \in Writers, NEW s \in Sections, Set(w, s) PROVE Store'
  BY <1>1 DEF Set, RestartLosesNothing
<1>2. ASSUME NEW w \in Writers, Copy(w) PROVE Store'
  BY <1>2 DEF Copy, RestartLosesNothing
<1>3. ASSUME NEW w \in Writers, Truncate(w) PROVE Store'
  BY <1>3 DEF Truncate, RestartLosesNothing
<1>4. ASSUME NEW w \in Writers, Write(w) PROVE Store'
  <2>1. file = Empty /\ snapshot[w] = memory /\ memory' = memory
    BY <1>4 DEF Write
  <2>2. Saving' = {}
    BY <1>4 DEF Write
  <2>3. (\A v \in Writers : writer'[v] # "failed") => Loaded' = memory'
    BY <1>4, <2>1 DEF Write, Loaded
  <2>4. QED BY <2>2, <2>3 DEF RestartLosesNothing
<1>5. CASE SettingsCrash
  BY <1>5 DEF SettingsCrash, RestartLosesNothing
<1>6. CASE Load
  <2>1. Saving = {} /\ UNCHANGED writer /\ memory' = Loaded /\ Loaded' = Loaded
    BY <1>6 DEF Load, Down, Loaded
  <2>2. QED BY <2>1 DEF RestartLosesNothing
<1>7. CASE UNCHANGED settings
  BY <1>7 DEF settings, RestartLosesNothing, Loaded
<1>8. QED
  BY <1>1, <1>2, <1>3, <1>4, <1>5, <1>6, <1>7, SettingsMoves DEF SettingsStep

-----------------------------------------------------------------------------
(* Requests that do not overlap: what was asked for                        *)

\* Steps of loops and rounds touch neither the settings nor the scheduler.
LEMMA LoopsStandBy ==
  /\ \A l : Loop(l) => UNCHANGED <<settings, scheduler>>
  /\ \A a : Round(a) => UNCHANGED <<settings, scheduler>>
  /\ \A c : AskRound(c) => UNCHANGED <<settings, scheduler>>
BY DEF Loop, ReadTicker, ReadChannel, Tick, EndLoop, Round, EnterRound, LeaveRound, AskRound

LEMMA AskedStep ==
  ASSUME ~Overlapping, TypeOK, Asked, Down, Generations, [Next]_vars
  PROVE  Asked'
<1> USE DriftAssumption, FileAssumption
    DEF Asked, Known, Saving, Starting, Moves, TypeOK, SettingsOK, Contents
<1>1. ASSUME NEW w \in Writers, ChangeSetting(w) PROVE Asked'
  BY <1>1 DEF ChangeSetting, Set
<1>2. ASSUME NEW w \in Writers, SaveSetting(w) PROVE Asked'
  <2>1. CASE Copy(w)
    BY <1>2, <2>1 DEF SaveSetting, Copy, scheduler
  <2>2. CASE Truncate(w)
    BY <1>2, <2>2 DEF SaveSetting, Truncate, scheduler
  <2>3. CASE Write(w)
    BY <1>2, <2>3 DEF SaveSetting, Write, scheduler
  <2>4. QED BY <1>2, <2>1, <2>2, <2>3 DEF SaveSetting, SettingsStep
<1>3. ASSUME NEW w \in Writers, StopScheduler(w) \/ NewTicker(w) \/ NewLoop(w) PROVE Asked'
  <2>1. CASE StopScheduler(w)
    BY <2>1 DEF StopScheduler, settings
  <2>2. CASE NewTicker(w)
    BY <2>2 DEF NewTicker, settings
  <2>3. CASE NewLoop(w)
    BY <2>3 DEF NewLoop, settings
  <2>4. QED BY <1>3, <2>1, <2>2, <2>3
<1>4. CASE Crash
  BY <1>4 DEF Crash, SettingsCrash
<1>5. CASE Boot
  <2>1. /\ UNCHANGED <<writer, section, snapshot, file, starting>> /\ memory' = Loaded
        /\ Saving = {} /\ Starting = {}
    BY <1>5 DEF Boot, Load, Down
  <2>2. Known(Loaded)
    <3>1. CASE file \in Contents
      BY <3>1 DEF Loaded
    <3>2. CASE file \notin Contents
      BY <3>2, SettingsAssumption DEF Loaded, Fresh
    <3>3. QED BY <3>1, <3>2
  <2>3. QED BY <2>1, <2>2
<1>6. CASE UNCHANGED <<settings, scheduler>>
  BY <1>6 DEF settings, scheduler
<1>7. QED
  BY <1>1, <1>2, <1>3, <1>4, <1>5, <1>6, LoopsStandBy DEF Next, Handler, vars

-----------------------------------------------------------------------------
(* Requests that do not overlap: the scheduler                             *)

LEMMA DownStep ==
  ASSUME TypeOK, Down, Generations, [Next]_vars
  PROVE  Down'
<1> USE DriftAssumption DEF Down, Saving, Starting, Moves, TypeOK, SettingsOK, Starters, Actors, Goto
<1>1. ASSUME NEW w \in Writers, ChangeSetting(w) PROVE Down'
  BY <1>1 DEF ChangeSetting, Set
<1>2. ASSUME NEW w \in Writers, SaveSetting(w) PROVE Down'
  BY <1>2 DEF SaveSetting, SettingsStep, Copy, Truncate, Write
<1>3. ASSUME NEW w \in Writers, StopScheduler(w) \/ NewTicker(w) \/ NewLoop(w) PROVE Down'
  BY <1>3 DEF StopScheduler, NewTicker, NewLoop, settings, Generations
<1>4. ASSUME NEW l \in Starters, Loop(l) PROVE Down'
  BY <1>4 DEF Loop, ReadTicker, ReadChannel, Tick, EndLoop, settings, scheduler
<1>5. ASSUME NEW a \in Actors, AskRound(a) \/ Round(a), a \in Callers \/ Round(a) PROVE Down'
  BY <1>5 DEF AskRound, Round, EnterRound, LeaveRound, AfterRound, settings, scheduler
<1>6. CASE Crash
  BY <1>6 DEF Crash, SettingsCrash
<1>7. CASE Boot
  BY <1>7 DEF Boot, Load
<1>8. CASE UNCHANGED vars
  BY <1>8 DEF vars, settings, scheduler
<1>9. QED
  BY <1>1, <1>2, <1>3, <1>4, <1>5, <1>6, <1>7, <1>8 DEF Next, Handler

LEMMA OnOrOff ==
  ASSUME TypeOK, NEW w \in Writers
  PROVE  hours[w] = 0 \/ hours[w] > 0
<1>1. hours[w] \in Intervals \cup {0}
  BY DEF TypeOK
<1>2. 0 \in Nat
  OBVIOUS
<1>3. hours[w] \in Nat
  BY <1>1, <1>2, DriftAssumption, Zenon
<1>4. QED BY <1>3

LEMMA GenerationsStep ==
  ASSUME ~Overlapping, TypeOK, Asked, Down, Generations, [Next]_vars
  PROVE  Generations'
<1> USE DriftAssumption, SettingsAssumption DEF Generations, Starting, TypeOK, SettingsOK, Starters
<1>1. ASSUME NEW w \in Writers, ChangeSetting(w) PROVE Generations'
  BY <1>1 DEF ChangeSetting, Set, Moves
<1>2. ASSUME NEW w \in Writers, SaveSetting(w) PROVE Generations'
  <2>1. /\ UNCHANGED <<section, scheduler>>
        /\ \A v \in Writers : writer[v] = "saved" => writer'[v] = "saved"
    BY <1>2 DEF SaveSetting, SettingsStep, Copy, Truncate, Write, Moves
  <2>2. QED BY <2>1 DEF scheduler
<1>3. ASSUME NEW w \in Writers, StopScheduler(w) PROVE Generations'
  <2>1. /\ w \in Starting /\ starting[w] = "no" /\ ticker = stopCh
        /\ \A v \in Writers : starting[v] \notin {"ticker", "channel"}
    BY <1>3 DEF StopScheduler
  <2>2. UNCHANGED <<writer, section, hours, ticker, stopCh>>
    BY <1>3 DEF StopScheduler, settings
  <2>3. /\ stopped' = closed' /\ None \notin stopped'
        /\ ticker \in stopped' \cup {None}
        /\ \A v \in Writers : v \notin stopped \cup {ticker} => v \notin stopped'
    BY <1>3, <2>1 DEF StopScheduler
  <2>4. CASE starting' = [starting EXCEPT ![w] = "ticker"] /\ driftMu' = w /\ hours[w] > 0
    BY <2>1, <2>2, <2>3, <2>4
  <2>5. ASSUME NEW stage \in {"done", "panicked"},
               starting' = [starting EXCEPT ![w] = stage], driftMu' = None
        PROVE  Generations'
    BY <2>1, <2>2, <2>3, <2>5
  <2>6. \/ starting' = [starting EXCEPT ![w] = "ticker"] /\ driftMu' = w /\ hours[w] > 0
        \/ \E stage \in {"done", "panicked"} :
             starting' = [starting EXCEPT ![w] = stage] /\ driftMu' = None
    <3>1. hours[w] = 0 \/ hours[w] > 0
      BY OnOrOff
    <3>2. CASE stopCh \in closed
      BY <1>3, <3>2 DEF StopScheduler
    <3>3. CASE stopCh \notin closed /\ hours[w] = 0
      BY <1>3, <3>3 DEF StopScheduler
    <3>4. CASE stopCh \notin closed /\ hours[w] > 0
      BY <1>3, <3>4 DEF StopScheduler
    <3>5. QED BY <3>1, <3>2, <3>3, <3>4
  <2>7. QED BY <2>4, <2>5, <2>6
<1>4. ASSUME NEW w \in Writers, NewTicker(w) PROVE Generations'
  <2>1. /\ starting[w] = "ticker" /\ w \in Starting /\ driftMu = w /\ hours[w] > 0
        /\ stopCh \in stopped \cup {None} /\ w \notin stopped \cup {stopCh}
        /\ \A v \in Writers : v # w => starting[v] \notin {"ticker", "channel"}
    BY <1>4 DEF NewTicker
  <2>2. /\ UNCHANGED <<writer, section, hours, stopCh, stopped, closed, driftMu>>
        /\ ticker' = w /\ starting' = [starting EXCEPT ![w] = "channel"]
    BY <1>4 DEF NewTicker, settings
  <2>3. QED BY <2>1, <2>2
<1>5. ASSUME NEW w \in Writers, NewLoop(w) PROVE Generations'
  BY <1>5 DEF NewLoop, settings
<1>6. CASE Crash
  <2>1. /\ driftMu' = None /\ ticker' = None /\ stopCh' = None
        /\ stopped' = {} /\ closed' = {}
    BY <1>6 DEF Crash
  <2>2. \A v \in Writers : starting'[v] \notin {"ticker", "channel"}
    BY <1>6 DEF Crash
  <2>3. QED BY <2>1, <2>2, SettingsAssumption
<1>7. CASE Boot
  BY <1>7 DEF Boot, Load, Down
<1>8. CASE UNCHANGED <<settings, scheduler>>
  BY <1>8 DEF settings, scheduler
<1>9. QED
  BY <1>1, <1>2, <1>3, <1>4, <1>5, <1>6, <1>7, <1>8, LoopsStandBy DEF Next, Handler, vars

LEMMA LoopsStep ==
  ASSUME TypeOK, Down, Generations, Loops, [Next]_vars
  PROVE  Loops'
<1> USE DriftAssumption DEF Loops, TypeOK, Starters, Actors, Goto
<1>1. ASSUME NEW w \in Writers, ChangeSetting(w) \/ SaveSetting(w) PROVE Loops'
  BY <1>1 DEF ChangeSetting, SaveSetting, scheduler
<1>2. ASSUME NEW w \in Writers, StopScheduler(w) PROVE Loops'
  BY <1>2 DEF StopScheduler
<1>3. ASSUME NEW w \in Writers, NewTicker(w) PROVE Loops'
  <2>1. ticker \in stopped \cup {None} /\ ticker' = w /\ w # None
    BY <1>3, SettingsAssumption DEF NewTicker, Generations
  <2>2. UNCHANGED <<stopCh, stopped, closed, at, watched>>
    BY <1>3 DEF NewTicker
  <2>3. QED BY <2>1, <2>2
<1>4. ASSUME NEW w \in Writers, NewLoop(w) PROVE Loops'
  BY <1>4 DEF NewLoop, Generations
<1>5. ASSUME NEW l \in Starters, Loop(l) PROVE Loops'
  BY <1>5 DEF Loop, ReadTicker, ReadChannel, Tick, EndLoop, scheduler
<1>6. ASSUME NEW c \in Callers, AskRound(c) PROVE Loops'
  BY <1>6 DEF AskRound, scheduler
<1>7. ASSUME NEW a \in Actors, Round(a) PROVE Loops'
  BY <1>7 DEF Round, EnterRound, LeaveRound, AfterRound, scheduler
<1>8. CASE Crash
  BY <1>8 DEF Crash
<1>9. CASE Boot
  BY <1>9 DEF Boot, Load, Down
<1>10. CASE UNCHANGED vars
  BY <1>10 DEF vars, scheduler
<1>11. QED
  BY <1>1, <1>2, <1>3, <1>4, <1>5, <1>6, <1>7, <1>8, <1>9, <1>10 DEF Next, Handler

LEMMA OwnLoopStep ==
  ASSUME TypeOK, Down, Generations, OwnLoop, [Next]_vars
  PROVE  OwnLoop'
<1> USE DriftAssumption DEF OwnLoop, Live, TypeOK, Starters, Actors, Goto
<1>1. ASSUME NEW w \in Writers, ChangeSetting(w) \/ SaveSetting(w) PROVE OwnLoop'
  BY <1>1 DEF ChangeSetting, SaveSetting, scheduler
<1>2. ASSUME NEW w \in Writers, StopScheduler(w) PROVE OwnLoop'
  BY <1>2 DEF StopScheduler
<1>3. ASSUME NEW w \in Writers, NewTicker(w) PROVE OwnLoop'
  BY <1>3 DEF NewTicker, Generations
<1>4. ASSUME NEW w \in Writers, NewLoop(w) PROVE OwnLoop'
  BY <1>4 DEF NewLoop, Generations
<1>5. ASSUME NEW l \in Starters, Loop(l) PROVE OwnLoop'
  <2>1. CASE ReadTicker(l)
    BY <2>1 DEF ReadTicker, scheduler
  <2>2. CASE ReadChannel(l)
    BY <2>2 DEF ReadChannel, scheduler
  <2>3. CASE Tick(l)
    BY <2>3 DEF Tick, scheduler
  <2>4. CASE EndLoop(l)
    BY <2>4 DEF EndLoop, scheduler
  <2>5. QED BY <1>5, <2>1, <2>2, <2>3, <2>4 DEF Loop
<1>6. ASSUME NEW c \in Callers, AskRound(c) PROVE OwnLoop'
  BY <1>6 DEF AskRound, scheduler
<1>7. ASSUME NEW a \in Actors, Round(a) PROVE OwnLoop'
  BY <1>7 DEF Round, EnterRound, LeaveRound, AfterRound, scheduler
<1>8. CASE Crash
  BY <1>8 DEF Crash
<1>9. CASE Boot
  BY <1>9 DEF Boot, Load, Down
<1>10. CASE UNCHANGED vars
  BY <1>10 DEF vars, scheduler
<1>11. QED
  BY <1>1, <1>2, <1>3, <1>4, <1>5, <1>6, <1>7, <1>8, <1>9, <1>10 DEF Next, Handler

LEMMA InForceStep ==
  ASSUME ~Overlapping, TypeOK, Asked, Down, Generations, InForce, [Next]_vars
  PROVE  InForce'
<1> USE DriftAssumption
    DEF InForce, Owing, Live, Interval, Starting, Saving, Moves, TypeOK, SettingsOK, Contents, Starters
<1>1. ASSUME NEW w \in Writers, ChangeSetting(w) PROVE InForce'
  BY <1>1 DEF ChangeSetting, Set, Asked, Known
<1>2. ASSUME NEW w \in Writers, SaveSetting(w) PROVE InForce'
  <2>1. /\ UNCHANGED <<server, memory, scheduler>>
        /\ \A v \in Writers : writer'[v] = writer[v]
             \/ {writer[v], writer'[v]} \subseteq {"copy", "truncate", "write", "saved", "failed"}
    BY <1>2 DEF SaveSetting, SettingsStep, Copy, Truncate, Write
  <2>2. QED BY <2>1 DEF scheduler
<1>3. ASSUME NEW w \in Writers, StopScheduler(w) PROVE InForce'
  BY <1>3 DEF StopScheduler, settings, Asked, Generations
<1>4. ASSUME NEW w \in Writers, NewTicker(w) PROVE InForce'
  BY <1>4 DEF NewTicker, settings
<1>5. ASSUME NEW w \in Writers, NewLoop(w) PROVE InForce'
  BY <1>5 DEF NewLoop, settings, Asked, Generations
<1>6. CASE Crash
  BY <1>6 DEF Crash, SettingsCrash
<1>7. CASE Boot
  <2>1. /\ memory' = Loaded /\ Loaded \in Contents /\ UNCHANGED <<hours, closed>>
        /\ stopCh = None
    BY <1>7, LoadType DEF Boot, Load, Down
  <2>2. CASE Loaded["drift"] # None /\ hours[Loaded["drift"]] > 0
    <3>1. stopCh' = "boot"
      BY <1>7, <2>2 DEF Boot
    <3>2. Interval' > 0
      BY <2>1, <2>2
    <3>3. QED BY <3>1, <3>2
  <2>3. CASE ~(Loaded["drift"] # None /\ hours[Loaded["drift"]] > 0)
    <3>1. stopCh' = None
      BY <1>7, <2>1, <2>3 DEF Boot
    <3>2. Interval' = 0
      BY <2>1, <2>3
    <3>3. QED BY <3>1, <3>2
  <2>4. QED BY <2>2, <2>3
<1>8. CASE UNCHANGED <<settings, scheduler>>
  BY <1>8 DEF settings, scheduler
<1>9. QED
  BY <1>1, <1>2, <1>3, <1>4, <1>5, <1>6, <1>7, <1>8, LoopsStandBy DEF Next, Handler, vars

LEMMA InTurnInit == Init => InTurn
<1> SUFFICES ASSUME Init PROVE InTurn
  OBVIOUS
<1>1. /\ server = "up" /\ Saving = {} /\ Starting = {} /\ memory = Fresh
      /\ file = None /\ snapshot = [w \in Writers |-> None] /\ Loaded = memory
  BY FileAssumption DEF Init, SettingsInit, Saving, Starting, Loaded
<1>2. /\ hours = [w \in Writers |-> 0] /\ starting = [w \in Writers |-> "no"]
      /\ driftMu = None /\ ticker = None /\ stopCh = None /\ stopped = {} /\ closed = {}
      /\ at = [a \in Actors |-> "none"]
  BY DEF Init
<1>3. memory["drift"] = None
  BY <1>1, DriftAssumption DEF Fresh
<1>4. Store
  BY <1>1 DEF Store, RestartLosesNothing, Saving
<1>5. Asked
  BY <1>1, <1>2, <1>3, SettingsAssumption, FileAssumption DEF Asked, Known
<1>6. Down /\ Loops /\ OwnLoop
  BY <1>1, <1>2 DEF Down, Loops, OwnLoop, Live, Actors, Starters
<1>7. Generations
  BY <1>2, SettingsAssumption DEF Generations
<1>8. InForce
  BY <1>2, <1>3 DEF InForce, Live, Interval
<1>9. QED BY <1>4, <1>5, <1>6, <1>7, <1>8 DEF InTurn

LEMMA InTurnStep ==
  ASSUME ~Overlapping
  PROVE  TypeOK /\ InTurn /\ [Next]_vars => InTurn'
BY StoreStep, AskedStep, DownStep, GenerationsStep, LoopsStep, OwnLoopStep, InForceStep DEF InTurn

-----------------------------------------------------------------------------
(* What follows                                                            *)

LEMMA NobodyOwes == TypeOK /\ Asked /\ Settled => ~Owing
BY DEF Asked, Known, Settled, Owing, Saving, Starting, TypeOK, SettingsOK

LEMMA KeepsSchedule == TypeOK /\ InTurn => ScheduleIsKept
<1> SUFFICES ASSUME TypeOK, InTurn, Settled, Interval > 0, stopCh \notin closed PROVE Scheduled
  BY DEF ScheduleIsKept
<1> USE DEF InTurn
<1>1. ~Owing /\ server = "up" /\ driftMu = None
  BY NobodyOwes, SettingsAssumption DEF Settled, Generations, TypeOK
<1>2. stopCh # None
  BY <1>1 DEF InForce
<1>3. ticker = stopCh /\ ticker \notin stopped /\ stopCh \in {memory["drift"], "boot"}
  BY <1>1, <1>2 DEF InForce, Live, Generations
<1>4. stopCh \in Starters
  BY <1>2 DEF TypeOK
<1>5. QED BY <1>2, <1>3, <1>4 DEF Scheduled, OwnLoop, Live

LEMMA OffIsHeard == TypeOK /\ InTurn => OffReachesAll
<1> SUFFICES ASSUME TypeOK, InTurn, Settled, Interval = 0
             PROVE  /\ {ticker, stopCh} \ {None} \subseteq stopped \cap closed
                    /\ \A l \in Starters : at[l] = "select" =>
                         watched[l].ticker \in stopped /\ watched[l].channel \in closed
  BY DEF OffReachesAll
<1> USE DEF InTurn
<1>1. ~Owing /\ server = "up" /\ driftMu = None
  BY NobodyOwes, SettingsAssumption DEF Settled, Generations, TypeOK
<1>2. stopCh = None \/ stopCh \in closed
  BY <1>1 DEF InForce, Live
<1>3. ticker = stopCh /\ stopped = closed
  BY <1>1 DEF Generations
<1>4. QED BY <1>2, <1>3 DEF Loops

LEMMA InTurnHolds ==
  ASSUME ~Overlapping
  PROVE  Spec => [](TypeOK /\ InTurn)
BY TypeInit, TypeStep, InTurnInit, InTurnStep, PTL DEF Spec

\* A restart loses no setting, for requests that do not overlap.
THEOREM SettingsSurvive == ASSUME ~Overlapping PROVE Spec => []RestartLosesNothing
<1>1. TypeOK /\ InTurn => RestartLosesNothing
  BY DEF InTurn, Store
<1>2. QED BY <1>1, InTurnHolds, PTL

\* The interval in force has its ticker and a loop that waits on it, through
\* changes, rounds and restarts, unless the checks were turned off before.
THEOREM SchedulesAreKept == ASSUME ~Overlapping PROVE Spec => []ScheduleIsKept
BY KeepsSchedule, InTurnHolds, PTL

\* A scheduler that is turned off leaves no loop waiting for a tick.
THEOREM OffReachesEveryLoop == ASSUME ~Overlapping PROVE Spec => []OffReachesAll
BY OffIsHeard, InTurnHolds, PTL

\* The scheduler follows its setting, on and off.
THEOREM SchedulersFollow == ASSUME ~Overlapping PROVE Spec => []SchedulerFollows
BY SchedulesAreKept, OffReachesEveryLoop, PTL DEF SchedulerFollows
=============================================================================
