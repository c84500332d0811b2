----------------------------- MODULE ResourceForm ----------------------------
(***************************************************************************)
(* The form of a resource: ResourcePage, which loads a schema, the default *)
(* region and, in edit mode, a resource, and DynamicForm, which keeps a    *)
(* region and an environment of its own, checks the inputs and submits     *)
(* them.  An apply or a destroy waits for the ConfirmModal.  The answers   *)
(* to the requests of the mount arrive in any order, before and after what *)
(* the user does.                                                          *)
(*                                                                         *)
(* The effects of a render are run with it: a step is one event, its       *)
(* renders and their effects.                                              *)
(***************************************************************************)
EXTENDS Naturals, FiniteSets

CONSTANTS
  Fields,       \* the inputs of the schema
  Required,     \* those that must have a value
  WithDefault,  \* those the schema has a default for
  Advanced,     \* those shown only in the advanced section
  Checked,      \* those with a pattern
  Regions,
  Home,         \* "eu-central-1"
  Envs,
  Dev,          \* "dev"
  None,
  MaxEdits,     \* bound: what the user types or selects
  MaxPresses    \* bound: the buttons of the form the user presses

ASSUME FormAssumption ==
  /\ Required \cup WithDefault \cup Advanced \cup Checked \subseteq Fields
  /\ Home \in Regions /\ Dev \in Envs
  /\ MaxEdits \in Nat /\ MaxPresses \in Nat

\* An input: not there, the default of the schema, what the resource has, what
\* the user typed, and text that its pattern refuses.
Values == {"unset", "default", "saved", "typed", "bad"}
Inputs == [Fields -> Values]
Actions == {"plan", "apply", "destroy"}
Request == [action : Actions, inputs : Inputs, region : Regions, env : Envs]
Resource == [inputs : [Fields -> {"unset", "saved"}], region : Regions, env : Envs]
Form == [region : Regions, env : Envs, touched : SUBSET Fields, errors : SUBSET Fields, advanced : BOOLEAN]

ASSUME NoneAssumption == None \notin Regions \cup Request \cup Resource \cup Form

VARIABLES
  edit,       \* the resource of ?edit=, None for a new one
  canDeploy,  \* of the role
  pending,    \* the requests of the mount that are not answered
  schema,     \* whether the schema is loaded
  editing,    \* editingResource # null
  values, region, env,
  form,       \* the state of DynamicForm, None before it is mounted
  confirm,    \* confirmAction
  launched,   \* the last operation that was started
  pressed,    \* history: what the form held whenever it was submitted
  picked,     \* history: the fields, "region" and "env" the user has set since the resource came
  late,       \* history: the settings came after the resource
  edits, presses

counters == <<edits, presses>>
history == <<pressed, picked, late>>
vars == <<edit, canDeploy, pending, schema, editing, values, region, env, form, confirm, launched, history, counters>>

TypeOK ==
  /\ edit \in Resource \cup {None}
  /\ canDeploy \in BOOLEAN /\ schema \in BOOLEAN /\ editing \in BOOLEAN /\ late \in BOOLEAN
  /\ pending \subseteq {"settings", "resource", "schema"}
  /\ values \in Inputs /\ region \in Regions /\ env \in Envs
  /\ form \in Form \cup {None}
  /\ confirm \in Request \cup {None} /\ launched \in Request \cup {None} /\ pressed \subseteq Request
  /\ picked \subseteq Fields \cup {"region", "env"}
  /\ edits \in 0..MaxEdits /\ presses \in 0..MaxPresses

Init ==
  /\ edit \in Resource \cup {None} /\ canDeploy \in BOOLEAN
  /\ pending = {"settings", "schema"} \cup IF edit = None THEN {} ELSE {"resource"}
  /\ schema = FALSE /\ editing = FALSE /\ late = FALSE
  /\ values = [f \in Fields |-> "unset"] /\ region = Home /\ env = Dev
  /\ form = None
  /\ confirm = None /\ launched = None /\ pressed = {}
  /\ picked = {} /\ edits = 0 /\ presses = 0

-----------------------------------------------------------------------------
(* The answers to the requests of the mount                                *)

\* setRegion of the page, and the effect by which the form follows it.
SetRegion(r) ==
  /\ region' = r
  /\ form' = IF form = None \/ r = region THEN form ELSE [form EXCEPT !.region = r]

Failed(request) ==
  /\ request \in pending
  /\ pending' = pending \ {request}
  /\ UNCHANGED <<edit, canDeploy, schema, editing, values, region, env, form, confirm, launched, history, counters>>

\* Seeded: settings without a default region clear it.
OnSettingsBlank(r) ==
  /\ "settings" \in pending
  /\ pending' = pending \ {"settings"}
  /\ SetRegion(None)
  /\ late' = editing
  /\ UNCHANGED <<edit, canDeploy, schema, editing, values, env, confirm, launched, pressed, picked, counters>>

\* The region of the settings replaces whatever region there is.
OnSettings(r) ==
  /\ "settings" \in pending
  /\ pending' = pending \ {"settings"}
  /\ SetRegion(r)
  /\ late' = editing
  /\ UNCHANGED <<edit, canDeploy, schema, editing, values, env, confirm, launched, pressed, picked, counters>>

\* The inputs of the resource replace whatever has been typed.  The environment
\* goes to the page; the form keeps its own.
OnResource ==
  /\ "resource" \in pending
  /\ pending' = pending \ {"resource"}
  /\ editing' = TRUE
  /\ values' = edit.inputs
  /\ SetRegion(edit.region)
  /\ env' = edit.env
  /\ picked' = {}
  /\ UNCHANGED <<edit, canDeploy, schema, confirm, launched, pressed, late, counters>>

\* Seeded: the defaults replace what is there.
MountFormDefaults ==
  /\ form' = [region |-> region, env |-> Dev, touched |-> {}, errors |-> {}, advanced |-> FALSE]
  /\ values' = [f \in Fields |-> IF f \in WithDefault THEN "default" ELSE values[f]]

\* DynamicForm is mounted with the schema; its effect fills in the defaults.
MountForm ==
  /\ form' = [region |-> region, env |-> Dev, touched |-> {}, errors |-> {}, advanced |-> FALSE]
  /\ values' = [f \in Fields |-> IF f \in WithDefault /\ values[f] = "unset" THEN "default" ELSE values[f]]

OnSchema ==
  /\ "schema" \in pending
  /\ pending' = pending \ {"schema"}
  /\ schema' = TRUE
  /\ MountForm
  /\ UNCHANGED <<edit, canDeploy, editing, region, env, confirm, launched, history, counters>>

-----------------------------------------------------------------------------
(* The user at the form                                                    *)

\* validateField
Invalid(f, v) == (f \in Required /\ v = "unset") \/ (f \in Checked /\ v = "bad")

ValidateAll == {f \in Fields : Invalid(f, values[f])}

\* The modal covers the form.
AtForm == schema /\ confirm = None

Edit(what) ==
  /\ AtForm /\ edits < MaxEdits
  /\ edits' = edits + 1
  /\ picked' = picked \cup {what}
  /\ UNCHANGED <<edit, canDeploy, pending, schema, editing, confirm, launched, pressed, late, presses>>

Shown(f) == f \notin Advanced \/ form.advanced

\* A touched field is checked as it changes.
HandleChange(f, v) ==
  /\ Edit(f)
  /\ Shown(f) /\ v # values[f]
  /\ values' = [values EXCEPT ![f] = v]
  /\ form' = IF f \notin form.touched THEN form
             ELSE [form EXCEPT !.errors = IF Invalid(f, v) THEN @ \cup {f} ELSE @ \ {f}]
  /\ UNCHANGED <<region, env>>

HandleBlur(f) ==
  /\ AtForm /\ Shown(f)
  /\ form' = [form EXCEPT !.touched = @ \cup {f},
                          !.errors = IF Invalid(f, values[f]) THEN @ \cup {f} ELSE @ \ {f}]
  /\ form' # form
  /\ UNCHANGED <<edit, canDeploy, pending, schema, editing, values, region, env, confirm, launched, history, counters>>

SelectRegion(r) ==
  /\ Edit("region")
  /\ r # form.region
  /\ form' = [form EXCEPT !.region = r]
  /\ region' = r
  /\ UNCHANGED <<values, env>>

SelectEnv(e) ==
  /\ Edit("env")
  /\ e # form.env
  /\ form' = [form EXCEPT !.env = e]
  /\ env' = e
  /\ UNCHANGED <<values, region>>

ToggleAdvanced ==
  /\ AtForm /\ Advanced # {}
  /\ form' = [form EXCEPT !.advanced = ~@]
  /\ UNCHANGED <<edit, canDeploy, pending, schema, editing, values, region, env, confirm, launched, history, counters>>

\* The request of the form: what a plan sends at once and what the modal keeps.
Submission(action) == [action |-> action, inputs |-> values, region |-> form.region, env |-> form.env]

Press(action) ==
  /\ AtForm /\ canDeploy /\ presses < MaxPresses
  /\ presses' = presses + 1
  /\ UNCHANGED <<edit, canDeploy, pending, schema, editing, values, picked, late, edits>>

\* handleSubmit of the form, with errors: they are shown, wherever they are.
SubmitInvalid(action) ==
  /\ Press(action)
  /\ ValidateAll # {}
  /\ form' = [form EXCEPT !.touched = Fields, !.errors = ValidateAll,
                          !.advanced = @ \/ ValidateAll \cap Advanced # {}]
  /\ UNCHANGED <<region, env, confirm, launched, pressed>>

\* Without errors the page takes the region and the environment of the form.
Submit(action) ==
  /\ Press(action)
  /\ ValidateAll = {}
  /\ form' = [form EXCEPT !.touched = Fields, !.errors = {}]
  /\ region' = form.region
  /\ env' = form.env
  /\ pressed' = pressed \cup {Submission(action)}
  /\ IF action = "plan"
     THEN launched' = Submission(action) /\ UNCHANGED confirm
     ELSE confirm' = Submission(action) /\ UNCHANGED launched

\* Seeded: the modal runs what the form holds by then.
HandleConfirmLater ==
  /\ confirm # None
  /\ launched' = Submission(confirm.action)
  /\ confirm' = None
  /\ UNCHANGED <<edit, canDeploy, pending, schema, editing, values, region, env, form, history, counters>>

HandleConfirm ==
  /\ confirm # None
  /\ launched' = confirm
  /\ confirm' = None
  /\ UNCHANGED <<edit, canDeploy, pending, schema, editing, values, region, env, form, history, counters>>

Cancel ==
  /\ confirm # None
  /\ confirm' = None
  /\ UNCHANGED <<edit, canDeploy, pending, schema, editing, values, region, env, form, launched, history, counters>>

Next ==
  \/ \E request \in pending : Failed(request)
  \/ \E r \in Regions : OnSettings(r)
  \/ OnResource \/ OnSchema
  \/ \E f \in Fields, v \in {"unset", "typed", "bad"} : HandleChange(f, v)
  \/ \E f \in Fields : HandleBlur(f)
  \/ \E r \in Regions : SelectRegion(r)
  \/ \E e \in Envs : SelectEnv(e)
  \/ ToggleAdvanced
  \/ \E a \in Actions : SubmitInvalid(a) \/ Submit(a)
  \/ HandleConfirm \/ Cancel

Spec == Init /\ [][Next]_vars

-----------------------------------------------------------------------------
(* Properties                                                              *)

\* What runs is what the user saw when a button was pressed, although the
\* answers of the mount may replace the inputs and the region while the modal
\* is up (ResourcePage.js:130-174).
LaunchesWhatWasSeen == launched # None => launched \in pressed

\* Nothing runs with an input the form would refuse, whatever the answers and
\* the defaults have put there since it was last checked (DynamicForm.js:154-166).
LaunchesValidInputs == launched # None => \A f \in Fields : ~Invalid(f, launched.inputs[f])

\* What runs was seen and passes the checks of the form.
LaunchesWhatWasSubmitted == LaunchesWhatWasSeen /\ LaunchesValidInputs

\* What is typed into a field of the resource under edit survives the schema,
\* its defaults and the settings, and what is not typed stays the resource's,
\* in whatever order they come (ResourcePage.js:52-73, DynamicForm.js:74-88).
EditedInputsKept ==
  editing => \A f \in Fields \ picked : edit.inputs[f] = "saved" => values[f] = "saved"

\* The form shows the region that the page prices and that the resource under
\* edit is in, unless the user selects another or the settings come after the
\* resource (ResourcePage.js:45, 60, DynamicForm.js:67-71).
EditStaysInRegion ==
  /\ form # None => form.region = region
  /\ editing /\ "region" \notin picked /\ ~late => region = edit.region

\* A resource under edit stays what it is until the user changes it
\* (ResourcePage.js:45-73, DynamicForm.js:67-88).
EditKeepsItsResource == EditedInputsKept /\ EditStaysInRegion

\* What ResourcePage.js:219-222 promises: "Editing existing resource", "Changes
\* will be applied to the live infrastructure".  It does not hold, and no run
\* asks for it: DynamicForm keeps an environment of its own, "dev" at first, so
\* that a resource of "prod" that is opened and applied makes one of "dev"
\* (ResourcePage.js:61, DynamicForm.js:61, 166).
EditReachesItsResource ==
  launched # None /\ editing /\ picked = {} => launched.region = edit.region /\ launched.env = edit.env

=============================================================================
