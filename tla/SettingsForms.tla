---------------------------- MODULE SettingsForms ---------------------------
(***************************************************************************)
(* The forms of SettingsPage that hold one value of the server each: AWS,  *)
(* GitHub, the state backend, Infracost, notifications, approvals, drift.  *)
(* A form loads its value as the page is mounted and sends it back when it *)
(* is saved.  Its buttons work before the load has been answered, and no   *)
(* request waits for another.                                              *)
(***************************************************************************)
EXTENDS Naturals, Sequences, Removal

CONSTANTS
  Values,       \* what a user can enter
  Blank,        \* what a form holds at first: nothing, or a default
  MaxActs       \* bound: edits and saves

VARIABLES
  at,            \* the form, see Forms
  stored,        \* the value of the server
  shownStatus,   \* awsStatus, ghStatus, icStatus, stateInfo
  draft,         \* the fields, by method: only GitHub has two
  method,        \* ghAuthMethod
  saving,        \* awsSaving, ghSaving, icSaving, stateInitializing, notifSaving
  message,       \* awsMsg, ghMsg, icMsg, notifMsg, stateError
  requests,      \* on their way, in the order they were sent
  typed,         \* history: the values the user entered
  last,          \* history: the value of the last save
  dirty,         \* history: a field was edited since the last save was sent
  early,         \* history: a save was sent before the load was answered
  savesCrossed,  \* history: requests were served or answered out of order
  failed,        \* history: a request was refused or lost
  acts

history == <<typed, last, dirty, early, savesCrossed, failed>>
settings == <<stored, shownStatus, draft, method, saving, message, requests, history, acts>>

Forms == {"aws", "github", "state", "infracost", "notifications", "approval", "drift"}
WithStatus == {"aws", "github", "state", "infracost"}
LoadsDraft == {"aws", "notifications", "approval", "drift"}
Methods == IF at = "github" THEN {"pat", "app"} ELSE {"only"}
Value == [of : {"pat", "app", "only"}, value : Values \cup {Blank}]

\* load is the request of the mounted page, read the one after a save; a test
\* of a channel comes after a save of its own.
Request == [kind : {"load", "save", "read", "test"}, value : Value, testing : BOOLEAN,
            phase : {"sent", "ok", "refused"}]

TypeOK ==
  /\ stored \in Value /\ shownStatus \in Value
  /\ draft \in [{"pat", "app", "only"} -> Values \cup {Blank}] /\ method \in {"pat", "app", "only"}
  /\ saving \in BOOLEAN /\ message \in {"none", "saved", "tested", "error"}
  /\ requests \in Seq(Request)
  /\ typed \subseteq Value /\ last \in Value
  /\ dirty \in BOOLEAN /\ early \in BOOLEAN /\ savesCrossed \in BOOLEAN /\ failed \in BOOLEAN
  /\ acts \in 0..MaxActs

NoValue == [of |-> IF at = "github" THEN "pat" ELSE "only", value |-> Blank]
Old == [NoValue EXCEPT !.value = CHOOSE v \in Values : TRUE]

\* A form reads its value as the page is mounted.  There is a state backend
\* only after it was initialised.
Init ==
  /\ stored = IF at = "state" THEN NoValue ELSE Old
  /\ shownStatus = NoValue
  /\ draft = [m \in {"pat", "app", "only"} |-> Blank] /\ method = NoValue.of
  /\ saving = FALSE /\ message = "none"
  /\ requests = <<[kind |-> "load", value |-> NoValue, testing |-> FALSE, phase |-> "sent"]>>
  /\ typed = {} /\ last = NoValue /\ dirty = FALSE /\ early = FALSE /\ savesCrossed = FALSE /\ failed = FALSE
  /\ acts = 0

Act == acts < MaxActs /\ acts' = acts + 1

Send(kind, value, testing) ==
  Append(requests, [kind |-> kind, value |-> value, testing |-> testing, phase |-> "sent"])

SendSave(value, testing) ==
  /\ Act
  /\ requests' = Send("save", value, testing)
  /\ early' = (early \/ \E i \in DOMAIN requests : requests[i].kind = "load")
  /\ dirty' = FALSE /\ last' = value

-----------------------------------------------------------------------------
(* What the user does                                                      *)

Edit(v) ==
  /\ at \notin {"state", "approval"} /\ v # draft[method]
  /\ Act
  /\ draft' = [draft EXCEPT ![method] = v]
  /\ typed' = typed \cup {[of |-> method, value |-> v]}
  /\ dirty' = TRUE
  /\ UNCHANGED <<stored, shownStatus, method, saving, message, requests, last, early, savesCrossed, failed>>

SetGhAuthMethod ==
  /\ at = "github"
  /\ method' \in Methods \ {method}
  /\ Act
  /\ UNCHANGED <<stored, shownStatus, draft, saving, message, requests, history>>

Drafted == [of |-> method, value |-> draft[method]]

\* saveAWS, saveGitHub, saveInfracost: a secret has to be entered each time.
SaveCredentials ==
  /\ at \in {"aws", "github", "infracost"} /\ ~saving
  /\ at # "aws" => draft[method] # Blank
  /\ SendSave(Drafted, FALSE)
  /\ saving' = TRUE /\ message' = "none"
  /\ UNCHANGED <<stored, shownStatus, draft, method, typed, savesCrossed, failed>>

\* The server chooses the bucket and the table.
InitStateBackend ==
  /\ at = "state" /\ ~saving /\ shownStatus = NoValue
  /\ SendSave(Old, FALSE)
  /\ saving' = TRUE /\ message' = "none"
  /\ UNCHANGED <<stored, shownStatus, draft, method, typed, savesCrossed, failed>>

SaveNotifications ==
  /\ at = "notifications" /\ ~saving
  /\ SendSave(Drafted, FALSE)
  /\ saving' = TRUE
  /\ UNCHANGED <<stored, shownStatus, draft, method, message, typed, savesCrossed, failed>>

\* A test saves the whole form first; its button is never disabled.
TestChannel ==
  /\ at = "notifications"
  /\ SendSave(Drafted, TRUE)
  /\ UNCHANGED <<stored, shownStatus, draft, method, saving, message, typed, savesCrossed, failed>>

\* The box shows the choice at once, and sends it.
ToggleApproval(v) ==
  /\ at = "approval" /\ v # draft[method]
  /\ draft' = [draft EXCEPT ![method] = v]
  /\ typed' = typed \cup {[of |-> method, value |-> v]}
  /\ SendSave([of |-> method, value |-> v], FALSE)
  /\ UNCHANGED <<stored, shownStatus, method, saving, message, savesCrossed, failed>>

SaveDrift ==
  /\ at = "drift"
  /\ SendSave(Drafted, FALSE)
  /\ UNCHANGED <<stored, shownStatus, draft, method, saving, message, typed, savesCrossed, failed>>

-----------------------------------------------------------------------------
(* The server                                                              *)

\* A handler stores what it was sent, or refuses it; a blank AWS region
\* becomes a default, and a second initialisation finds the bucket.
Serve(i) ==
  /\ requests[i].phase = "sent"
  /\ LET q == requests[i] IN
     \/ /\ stored' = IF q.kind = "save" THEN q.value ELSE stored
        /\ requests' = [requests EXCEPT ![i].phase = "ok",
                                        ![i].value = IF q.kind \in {"load", "read"} THEN stored ELSE @]
        /\ failed' = failed
     \/ /\ q.kind \in {"save", "test"}
        /\ requests' = [requests EXCEPT ![i].phase = "refused"]
        /\ failed' = TRUE
        /\ UNCHANGED stored
  /\ savesCrossed' = (savesCrossed \/ \E j \in 1..(i - 1) : requests[j].phase = "sent")
  /\ UNCHANGED <<at, shownStatus, draft, method, saving, message, typed, last, dirty, early, acts>>

-----------------------------------------------------------------------------
(* The answers                                                             *)

Done(i) ==
  /\ savesCrossed' = (savesCrossed \/ i # 1)
  /\ UNCHANGED <<stored, typed, last, dirty, early, acts>>

\* Of GitHub the method is loaded, of the secrets nothing.
OnLoad(i) ==
  /\ requests[i].kind = "load" /\ requests[i].phase = "ok"
  /\ LET loaded == requests[i].value IN
     /\ shownStatus' = IF at \in WithStatus THEN loaded ELSE shownStatus
     /\ method' = loaded.of
     /\ draft' = IF at \in LoadsDraft THEN [draft EXCEPT !["only"] = loaded.value] ELSE draft
  /\ requests' = Without(requests, i)
  /\ Done(i)
  /\ UNCHANGED <<saving, message, failed>>

\* A success is told, the secrets are cleared and the status is read again.
OnCredentials(i) ==
  /\ at \in {"aws", "github", "infracost"}
  /\ requests[i].kind = "save" /\ requests[i].phase # "sent"
  /\ LET rest == Without(requests, i) IN
     IF requests[i].phase = "ok"
     THEN /\ message' = "saved"
          /\ draft' = IF at = "aws" THEN draft ELSE [m \in DOMAIN draft |-> Blank]
          /\ requests' = Append(rest, [requests[i] EXCEPT !.kind = "read", !.phase = "sent"])
          /\ UNCHANGED saving
     ELSE message' = "error" /\ saving' = FALSE /\ requests' = rest /\ UNCHANGED draft
  /\ Done(i)
  /\ UNCHANGED <<shownStatus, method, failed>>

OnStatus(i) ==
  /\ requests[i].kind = "read" /\ requests[i].phase = "ok"
  /\ shownStatus' = requests[i].value
  /\ saving' = FALSE
  /\ requests' = Without(requests, i)
  /\ Done(i)
  /\ UNCHANGED <<draft, method, message, failed>>

OnStateInit(i) ==
  /\ at = "state" /\ requests[i].kind = "save" /\ requests[i].phase # "sent"
  /\ IF requests[i].phase = "ok" THEN shownStatus' = requests[i].value /\ UNCHANGED message
                                 ELSE message' = "error" /\ UNCHANGED shownStatus
  /\ saving' = FALSE
  /\ requests' = Without(requests, i)
  /\ Done(i)
  /\ UNCHANGED <<draft, method, failed>>

\* The status of the answer is not looked at; a test is sent after it.
OnNotifications(i) ==
  /\ at = "notifications" /\ requests[i].kind = "save" /\ requests[i].phase # "sent"
  /\ LET rest == Without(requests, i) IN
     IF requests[i].testing
     THEN /\ requests' = Append(rest, [requests[i] EXCEPT !.kind = "test", !.phase = "sent"])
          /\ UNCHANGED <<message, saving>>
     ELSE message' = "saved" /\ saving' = FALSE /\ requests' = rest
  /\ Done(i)
  /\ UNCHANGED <<shownStatus, draft, method, failed>>

OnTested(i) ==
  /\ requests[i].kind = "test" /\ requests[i].phase # "sent"
  /\ message' = IF requests[i].phase = "ok" THEN "tested" ELSE "error"
  /\ requests' = Without(requests, i)
  /\ Done(i)
  /\ UNCHANGED <<shownStatus, draft, method, saving, failed>>

\* Nothing comes of the answer: a refused choice stays in its box.
OnSaved(i) ==
  /\ at \in {"approval", "drift"} /\ requests[i].kind = "save" /\ requests[i].phase # "sent"
  /\ requests' = Without(requests, i)
  /\ Done(i)
  /\ UNCHANGED <<shownStatus, draft, method, saving, message, failed>>

\* The request or its answer is lost: a save that says so is over.
OnLost(i) ==
  /\ requests' = Without(requests, i)
  /\ failed' = TRUE
  /\ IF requests[i].kind = "load" \/ at \in {"approval", "drift"}
     THEN UNCHANGED <<message, saving>>
     ELSE message' = "error" /\ saving' = (saving /\ (requests[i].testing \/ requests[i].kind = "test"))
  /\ Done(i)
  /\ UNCHANGED <<shownStatus, draft, method>>

Next ==
  \/ \E v \in Values : Edit(v) \/ ToggleApproval(v)
  \/ SetGhAuthMethod \/ SaveCredentials \/ InitStateBackend
  \/ SaveNotifications \/ TestChannel \/ SaveDrift
  \/ \E i \in DOMAIN requests :
       \/ Serve(i)
       \/ OnLoad(i) \/ OnCredentials(i) \/ OnStatus(i) \/ OnStateInit(i)
       \/ OnNotifications(i) \/ OnTested(i) \/ OnSaved(i) \/ OnLost(i)

-----------------------------------------------------------------------------
(* Properties                                                              *)

\* Nothing gets into the store that was neither there nor entered: a save
\* sends back what was loaded, unless it was sent before the load was answered
\* or the load failed (SettingsPage.js:104-157, 687-801).
SavesWhatWasLoaded ==
  at \in Forms =>
    \/ early \/ failed
    \/ stored \in typed \cup {Old}
    \/ at = "state" /\ stored = NoValue

\* When all is answered, in order, well and after the load, a form shows what is stored
\* unless it has been edited since (SettingsPage.js:159-274, 764-801).
FormAgreesWithStore ==
  at \in Forms /\ requests = << >> /\ ~early /\ ~savesCrossed /\ ~failed =>
    /\ at \in WithStatus => shownStatus = stored
    /\ at \in LoadsDraft => dirty \/ [of |-> method, value |-> draft[method]] = stored

\* Credentials told to be saved are the stored ones, and a button that was
\* turned off for a save is on again when nothing is under way
\* (SettingsPage.js:159-180, 200-274, 735-743).
SaveIsToldAsItEnded ==
  /\ at \in {"aws", "github", "infracost"} /\ message = "saved" => stored = last
  /\ at \in Forms /\ requests = << >> => ~saving

=============================================================================
