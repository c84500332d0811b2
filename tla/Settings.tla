------------------------------ MODULE Settings ------------------------------
(***************************************************************************)
(* The settings of the backend (credentials.go): a struct in memory under  *)
(* a read-write lock, and an encrypted file that is read at start-up.  A   *)
(* setter changes its section under the lock; saveSettings copies the      *)
(* struct under the lock, and truncates and writes the file outside it.    *)
(* The value of a section is named by the request that has set it.         *)
(***************************************************************************)
EXTENDS Naturals, FiniteSets

CONSTANTS
  Writers,      \* requests that change a setting
  Sections,     \* the sections of AppSettings
  Overlapping,  \* requests may overlap
  MaxCrashes,   \* bound: crashes in a behaviour
  MaxErrors,    \* bound: writes of the file that fail
  None, Empty, Broken

ASSUME SettingsAssumption ==
  /\ Overlapping \in BOOLEAN
  /\ MaxCrashes \in Nat /\ MaxErrors \in Nat
  /\ None \notin Writers

VARIABLES
  server,    \* "up" or "down"
  writer,    \* the step of each request
  section,   \* the section each request changes
  memory,    \* appSettings
  snapshot,  \* the copy each request has marshalled
  file,      \* the file, Empty when truncated, Broken when it cannot be decrypted
  crashes, errors

settings == <<server, writer, section, memory, snapshot, file, crashes, errors>>

Contents == [Sections -> Writers \cup {None}]
Fresh    == [s \in Sections |-> None]

ASSUME FileAssumption ==
  Empty \notin Contents /\ Broken \notin Contents /\ None \notin Contents
    /\ Empty # Broken /\ None \notin {Empty, Broken}

SettingsOK ==
  /\ server \in {"up", "down"}
  /\ writer \in [Writers -> {"idle", "copy", "truncate", "write", "saved", "failed", "lost"}]
  /\ section \in [Writers -> Sections \cup {None}]
  /\ memory \in Contents
  /\ snapshot \in [Writers -> Contents \cup {None}]
  /\ file \in Contents \cup {None, Empty, Broken}
  /\ crashes \in 0 .. MaxCrashes /\ errors \in 0 .. MaxErrors

SettingsInit ==
  /\ server = "up"
  /\ writer = [w \in Writers |-> "idle"]
  /\ section = [w \in Writers |-> None]
  /\ memory = Fresh
  /\ snapshot = [w \in Writers |-> None]
  /\ file = None
  /\ crashes = 0 /\ errors = 0

Saving == {w \in Writers : writer[w] \in {"copy", "truncate", "write"}}

Moves(w, stage) == writer' = [writer EXCEPT ![w] = stage]

-----------------------------------------------------------------------------

\* Set...: the section is in force at once.
Set(w, s) ==
  /\ server = "up" /\ writer[w] = "idle"
  /\ Overlapping \/ Saving = {}
  /\ section' = [section EXCEPT ![w] = s]
  /\ memory' = [memory EXCEPT ![s] = w]
  /\ Moves(w, "copy")
  /\ UNCHANGED <<server, snapshot, file, crashes, errors>>

\* Seeded: a copy holds the section that was changed and nothing else.
CopySection(w) ==
  /\ writer[w] = "copy"
  /\ snapshot' = [snapshot EXCEPT ![w] = [Fresh EXCEPT ![section[w]] = w]]
  /\ Moves(w, "truncate")
  /\ UNCHANGED <<server, section, memory, file, crashes, errors>>

Copy(w) ==
  /\ writer[w] = "copy"
  /\ snapshot' = [snapshot EXCEPT ![w] = memory]
  /\ Moves(w, "truncate")
  /\ UNCHANGED <<server, section, memory, file, crashes, errors>>

\* os.WriteFile opens the file with O_TRUNC; an error is the handler's answer.
Truncate(w) ==
  /\ writer[w] = "truncate"
  /\ \/ file' = Empty /\ Moves(w, "write") /\ UNCHANGED errors
     \/ errors < MaxErrors /\ errors' = errors + 1 /\ Moves(w, "failed") /\ UNCHANGED file
  /\ UNCHANGED <<server, section, memory, snapshot, crashes>>

\* What another request has written since may be longer than what is laid over
\* it; a write that fails leaves the file as it is.
Write(w) ==
  /\ writer[w] = "write"
  /\ \/ /\ file' \in IF file = Empty THEN {snapshot[w]} ELSE {snapshot[w], Broken}
        /\ Moves(w, "saved") /\ UNCHANGED errors
     \/ errors < MaxErrors /\ errors' = errors + 1 /\ Moves(w, "failed") /\ UNCHANGED file
  /\ snapshot' = [snapshot EXCEPT ![w] = None]
  /\ UNCHANGED <<server, section, memory, crashes>>

SettingsCrash ==
  /\ server = "up" /\ crashes < MaxCrashes
  /\ server' = "down"
  /\ crashes' = crashes + 1
  /\ writer' = [w \in Writers |-> IF w \in Saving THEN "lost" ELSE writer[w]]
  /\ UNCHANGED <<section, memory, snapshot, file, errors>>

\* What the next process starts with: a file that is missing or cannot be
\* decrypted counts as a fresh start.  (Variables of the environment may fill
\* in other sections.)
Loaded == IF file \in Contents THEN file ELSE Fresh

\* Seeded: the file is taken as it is.
LoadRaw ==
  /\ server = "down"
  /\ server' = "up"
  /\ memory' = file
  /\ UNCHANGED <<writer, section, snapshot, file, crashes, errors>>

Load ==
  /\ server = "down"
  /\ server' = "up"
  /\ memory' = Loaded
  /\ UNCHANGED <<writer, section, snapshot, file, crashes, errors>>

SettingsStep(w) == Copy(w) \/ Truncate(w) \/ Write(w)

-----------------------------------------------------------------------------
(* Properties                                                              *)

\* A restart loses no setting: when no request is saving and no write has
\* failed, the next process would start with the settings that are in force.
RestartLosesNothing ==
  server = "up" /\ Saving = {} /\ (\A w \in Writers : writer[w] # "failed") => Loaded = memory
=============================================================================
